---------------------------- MODULE Spec2Model ----------------------------
(***************************************************************************)
(* A model of simpleeval's evaluators (src/simpleeval.py, src/executors.py) *)
(* as a small-step machine.  One evaluator instance is modelled.  A Python  *)
(* call of a handler is a frame on `stack`; `ctl` says what happens next:   *)
(* a node is about to be given to self._eval, a handler has returned a      *)
(* value to the frame below it, or an exception is travelling up.           *)
(***************************************************************************)
EXTENDS Integers, Sequences, FiniteSets, TLC

VARIABLES
    cls,            \* the class the instance was constructed from
    functions,      \* self.functions : name -> value
    operators,      \* self.operators : the operator kinds that have an entry
    caller_functions, \* the dict the host passed as functions, after construction
    twins,          \* two instances whose calls interleave: who runs, who waits
    given,          \* observation: the arguments SimpleEval.__init__ was given
    simpleeval,     \* the module's globals the host may rebind after import
    names,          \* self.names     : name -> value (a dict), or a callable
    nameHandler,    \* self.nodes[ast.Name]: 0 is _eval_name, k > 0 is the
                    \* closure eval_names_extra of comprehension scope k
    scopes,         \* the closures of _do_comprehension: [extra, prev]
    items,          \* the host's dicts: object -> key -> value
    num_stmts,      \* self._num_stmts
    max_count,      \* self._max_count
    stack,          \* the Python call stack of handlers of the running call
    ctl,            \* control: idle / eval a node / returned value / exception
    gens,           \* generator objects made by _eval_generatorexp
    ran,            \* observation: arguments the host function mark was called with
    invoked,        \* observation: host callables that were invoked
    reads,          \* observation: attribute names given to getattr
    evals,          \* observation: calls of self._eval in the running call
    handlers_run,   \* observation: handlers started in the running call
    iters,          \* observation: loop iterations / comprehension items drawn in the running call
    first_return,   \* observation: the first _Return raised in the running call
    after_return,   \* observation: handlers started after first_return
    calls,          \* top-level calls made on the instance so far
    entry,          \* observation: what the host called last: eval, exec or next
    last_end        \* observation: how the call before the running one ended

tables  == <<cls, functions, operators, given, caller_functions, simpleeval>>
config  == <<tables, twins>>
heap    == <<names, nameHandler, scopes, items>>
counts  == <<num_stmts, max_count>>
machine == <<stack, ctl>>
hostlog == <<ran, invoked, reads>>
meter   == <<evals, handlers_run, iters, first_return, after_return>>
vars    == <<config, heap, counts, machine, gens, hostlog, meter, calls, entry, last_end>>

---------------------------------------------------------------------------
(* Thresholds.  The source sets 100000, 10000, 100000 and, for MAX_POWER, *)
(* 4000000; the model scales them.                                       *)

MAX_NUM_STATEMENTS == 60
MAX_COMPREHENSION_LENGTH == 6
MAX_STRING_LENGTH == 3
MAX_POWER == 3
MaxCalls == 2

---------------------------------------------------------------------------
(* Values.  Every value is a record tagged with t. *)

None      == [t |-> "None"]
IntV(n)   == [t |-> "int", n |-> n]
BoolV(b)  == [t |-> "bool", b |-> b]
StrV(s)   == [t |-> "str", s |-> s]     \* s: the characters
ListV(s)  == [t |-> "list", items |-> s]
TupleV(s) == [t |-> "tuple", items |-> s]
Count     == [t |-> "count"]          \* itertools.count(): an unbounded host iterable
Fn(f)     == [t |-> "fn", f |-> f]    \* a host callable
Obj(o)    == [t |-> "obj", o |-> o]   \* a host object
GenV(g)   == [t |-> "generator", g |-> g]
FloatV(n, d) == [t |-> "float", num |-> n, den |-> d]    \* the float n / d
Proxy(o)  == [t |-> "proxy", op |-> o]  \* a host object whose bool() raises TypeError

Truthy(v) ==
    CASE v.t = "None" -> FALSE
      [] v.t = "int" -> v.n # 0
      [] v.t = "bool" -> v.b
      [] v.t = "str" -> Len(v.s) > 0
      [] v.t \in {"list", "tuple"} -> Len(v.items) > 0
      [] OTHER -> TRUE

(* str() and repr() of a value. *)
DigitChars == <<"0", "1", "2", "3", "4", "5", "6", "7", "8", "9">>
RECURSIVE digits(_)
digits(n) == IF n < 10 THEN <<DigitChars[n + 1]>>
             ELSE digits(n \div 10) \o <<DigitChars[(n % 10) + 1]>>
RECURSIVE repr(_)
RECURSIVE join(_)
join(vs) == IF vs = <<>> THEN <<>>
            ELSE IF Len(vs) = 1 THEN repr(vs[1])
            ELSE repr(vs[1]) \o <<",", " ">> \o join(Tail(vs))
repr(v) ==
    CASE v.t = "None" -> <<"N", "o", "n", "e">>
      [] v.t = "int" -> IF v.n < 0 THEN <<"-">> \o digits(-v.n) ELSE digits(v.n)
      [] v.t = "bool" -> IF v.b THEN <<"T", "r", "u", "e">> ELSE <<"F", "a", "l", "s", "e">>
      [] v.t = "str" -> <<"'">> \o v.s \o <<"'">>
      [] v.t = "list" -> <<"[">> \o join(v.items) \o <<"]">>
      [] v.t = "tuple" -> <<"(">> \o join(v.items)
                          \o (IF Len(v.items) = 1 THEN <<",">> ELSE <<>>) \o <<")">>
      [] OTHER -> <<"<", v.t, ">">>     \* a host object: a text the host chooses
str(v) == IF v.t = "str" THEN v.s ELSE repr(v)

(* Exceptions. *)
Exc(k)     == [k |-> k]
Return_(v) == [k |-> "_Return", val |-> v]
Break_     == [k |-> "_Break"]
Continue_  == [k |-> "_Continue"]

(* Control. *)
IdleC      == [m |-> "idle"]
ResumeC    == [m |-> "resume"]                \* a generator is resumed
YieldC(v)  == [m |-> "yield", val |-> v]      \* a generator yields v
StopC      == [m |-> "stop"]                  \* a generator is exhausted
EvalC(n)   == [m |-> "eval", node |-> n]
RetC(v)    == [m |-> "ret", val |-> v]
ExcC(e)    == [m |-> "exc", exc |-> e]
HangC(b)   == [m |-> "hang", tick |-> b]

Top        == stack[Len(stack)]
Pop(s)     == SubSeq(s, 1, Len(s) - 1)
Push(s, f) == Append(s, f)
SetTop(s, f) == [s EXCEPT ![Len(s)] = f]

Running == stack # <<>> \/ ctl.m \in {"eval", "hang"}
Done    == stack = <<>> /\ ctl.m \in {"ret", "exc"}
Raised(k) == Done /\ ctl.m = "exc" /\ ctl.exc.k = k

---------------------------------------------------------------------------
(* Syntax trees, as ast.parse builds them.  A node is a record tagged with *)
(* kind, the name of its ast class.  Attribute names are sequences of      *)
(* characters, so that str.startswith can be computed.                     *)

Constant(v)          == [kind |-> "Constant", value |-> v]
Name(id)             == [kind |-> "Name", id |-> id]
BinOp(l, o, r)       == [kind |-> "BinOp", left |-> l, op |-> o, right |-> r]
Compare(l, os, cs)   == [kind |-> "Compare", left |-> l, ops |-> os, comparators |-> cs]
Call(f, as)          == [kind |-> "Call", func |-> f, args |-> as]
UnaryOp(o, v)        == [kind |-> "UnaryOp", op |-> o, operand |-> v]
SetN(es)             == [kind |-> "Set", elts |-> es]
Lambda(b)            == [kind |-> "Lambda", body |-> b]
Import               == [kind |-> "Import"]                         \* a statement
Attribute(v, a)      == [kind |-> "Attribute", value |-> v, attr |-> a]
JoinedStr(vs)        == [kind |-> "JoinedStr", values |-> vs]
FormattedValue(v)    == [kind |-> "FormattedValue", value |-> v]    \* no format_spec
ListN(es)            == [kind |-> "List", elts |-> es]
TupleN(es)           == [kind |-> "Tuple", elts |-> es]
Clause(t, it, fs)    == [target |-> t, iter |-> it, ifs |-> fs]
ListComp(e, gs)      == [kind |-> "ListComp", elt |-> e, generators |-> gs]
GeneratorExp(e, gs)  == [kind |-> "GeneratorExp", elt |-> e, generators |-> gs]
FinalValue(v)        == [kind |-> "_FinalValue", value |-> v]
NoneNode             == [kind |-> "NoneType"]      \* an absent child (None)
Expr(v)              == [kind |-> "Expr", value |-> v]
Assign(ts, v)        == [kind |-> "Assign", targets |-> ts, value |-> v]
If(t, b, e)          == [kind |-> "If", test |-> t, body |-> b, orelse |-> e]
For(t, it, b, e)     == [kind |-> "For", target |-> t, iter |-> it, body |-> b, orelse |-> e]
While(t, b, e)       == [kind |-> "While", test |-> t, body |-> b, orelse |-> e]
BreakS               == [kind |-> "Break"]
ContinueS            == [kind |-> "Continue"]
PassS                == [kind |-> "Pass"]
ReturnS(v)           == [kind |-> "Return", value |-> v]
Subscript(v, s)      == [kind |-> "Subscript", value |-> v, slice |-> s]   \* slice: the index node
AugAssign(t, o, v)   == [kind |-> "AugAssign", target |-> t, op |-> o, value |-> v]

Num(n)  == Constant(IntV(n))
TrueN   == Constant(BoolV(TRUE))
FalseN  == Constant(BoolV(FALSE))

---------------------------------------------------------------------------
(* The tables of an instance and of the module. *)

Classes == {"SimpleEval", "EvalWithCompoundTypes", "ExecutorWithControl"}

SimpleEvalNodes == {"Constant", "Name", "UnaryOp", "BinOp", "Compare", "Call",
                    "Attribute", "Subscript", "JoinedStr", "FormattedValue"}
CompoundNodes   == {"List", "Tuple", "ListComp", "GeneratorExp"}
AssignNodes     == {"Expr", "Assign", "AugAssign"}
ControlNodes    == {"_FinalValue", "Return", "If", "For", "While", "Break", "Continue", "Pass"}

(* self.nodes: the kinds that have a handler, by class (the kinds the model's inputs use). *)
nodes(c) ==
    CASE c = "SimpleEval" -> SimpleEvalNodes
      [] c = "EvalWithCompoundTypes" -> SimpleEvalNodes \cup CompoundNodes
      [] c = "ExecutorWithControl" ->
            SimpleEvalNodes \cup CompoundNodes \cup AssignNodes \cup ControlNodes

(* self.assign_nodes *)
assign_nodes(c) ==
    IF c = "ExecutorWithControl" THEN {"Name", "Tuple", "List", "Subscript"} ELSE {}

IsExecutor == cls = "ExecutorWithControl"

(* Attribute names, as characters. *)
a_priv   == <<"_", "p">>
a_class  == <<"_", "_", "c", "l", "a", "s", "s", "_", "_">>
a_funcg  == <<"f", "u", "n", "c", "_", "g">>
a_format == <<"f", "o", "r", "m", "a", "t">>
a_mro    == <<"m", "r", "o">>
a_run    == <<"r", "u", "n">>
a_exec   == <<"e", "x", "e", "c">>
a_bar    == <<"b", "a", "r">>
a_nope   == <<"n", "o", "p", "e">>
a_te     == <<"t", "e">>
a_ve     == <<"v", "e">>

DISALLOW_PREFIXES  == {<<"_">>, <<"f", "u", "n", "c", "_">>}
DISALLOW_METHODS   == {a_format, <<"f", "o", "r", "m", "a", "t", "_", "m", "a", "p">>, a_mro}
DISALLOW_FUNCTIONS ==
    {Fn(f) : f \in {"type", "isinstance", "eval", "getattr", "setattr", "help",
                    "repr", "compile", "open", "exec"}}
ATTR_INDEX_FALLBACK == TRUE

(* The operator kinds of DEFAULT_OPERATORS; of DEFAULT_FUNCTIONS (rand,   *)
(* randint, int, float, str) the model keeps int and str.                 *)
DEFAULT_OPERATORS ==
    {"Add", "Sub", "Mult", "Div", "FloorDiv", "Pow", "Mod", "Eq", "NotEq", "Gt", "Lt",
     "GtE", "LtE", "Not", "USub", "UAdd", "In", "NotIn", "Is", "IsNot"}
DEFAULT_FUNCTIONS == ("int" :> Fn("int")) @@ ("str" :> Fn("str"))

(* The module's globals as the import leaves them. *)
Imported ==
    [MAX_POWER |-> MAX_POWER,
     DISALLOW_PREFIXES |-> DISALLOW_PREFIXES,
     DISALLOW_METHODS |-> DISALLOW_METHODS,
     DISALLOW_FUNCTIONS |-> DISALLOW_FUNCTIONS]

startswith(s, prefix) ==
    Len(prefix) <= Len(s) /\ SubSeq(s, 1, Len(prefix)) = prefix

(* The host's values: foo is an object with attributes, d and m are dicts. *)
Empty == [x \in {} |-> None]
HostAttrs(v) ==
    IF v.t = "obj" /\ v.o = "foo"
    THEN (a_run :> Fn("exec")) @@ (a_bar :> IntV(1)) @@ (a_class :> Fn("type"))
         @@ (a_format :> Fn("mark")) @@ (a_priv :> IntV(3))
    ELSE Empty
HostDicts ==
    ("d" :> ((StrV(a_exec) :> Fn("exec")) @@ (StrV(a_bar) :> IntV(2))
             @@ (StrV(a_priv) :> IntV(4))))
    @@ ("m" :> (IntV(1) :> IntV(10)))
IsDict(v) == v.t = "obj" /\ v.o \in DOMAIN items
HostItems(v) == IF IsDict(v) THEN items[v.o] ELSE Empty

(* The properties of foo whose getter raises, with the error it raises. *)
HostRaises(v) ==
    IF v.t = "obj" /\ v.o = "foo"
    THEN (a_te :> "TypeError") @@ (a_ve :> "ValueError")
    ELSE Empty

(* getattr(v, attr) and v[key], as the host's values answer them. *)
getattr(v, attr) ==
    IF attr \in DOMAIN HostAttrs(v) THEN RetC(HostAttrs(v)[attr])
    ELSE IF attr \in DOMAIN HostRaises(v) THEN ExcC(Exc(HostRaises(v)[attr]))
    ELSE ExcC(Exc("AttributeError"))
getitem(v, key) ==
    IF IsDict(v)
    THEN IF key \in DOMAIN HostItems(v) THEN RetC(HostItems(v)[key])
         ELSE ExcC(Exc("KeyError"))
    ELSE IF v.t \in {"list", "tuple"} /\ key.t = "int"
    THEN IF key.n \in 0..(Len(v.items) - 1) THEN RetC(v.items[key.n + 1])
         ELSE IF -key.n \in 1..Len(v.items) THEN RetC(v.items[Len(v.items) + key.n + 1])
         ELSE ExcC(Exc("IndexError"))
    ELSE ExcC(Exc("TypeError"))      \* not subscriptable, or not by this key

(* What calling a host callable returns. *)
HostCall(f, args) ==
    CASE f = "mark" /\ Len(args) > 0 -> args[1]
      [] f = "int" /\ Len(args) > 0 /\ args[1].t = "int" -> args[1]
      [] f = "str" /\ Len(args) > 0 -> StrV(str(args[1]))
      [] OTHER -> None

(* Iteration over a value: iter() and next(). *)
Iterable(v)     == v.t \in {"list", "tuple", "str", "count"}
HasNext(v, idx) ==
    CASE v.t = "count" -> TRUE
      [] v.t = "str" -> idx < Len(v.s)
      [] OTHER -> idx < Len(v.items)
Item(v, idx) ==
    CASE v.t = "count" -> IntV(idx - 1)
      [] v.t = "str" -> StrV(<<v.s[idx]>>)
      [] OTHER -> v.items[idx]

---------------------------------------------------------------------------
(* Name lookup. *)

(* self.names is a callable when it is not a dict. *)
callable(v) == "t" \in DOMAIN v

(* The callable the host gives as names: it knows a, fails on v with an   *)
(* error of its own and looks every other name up in an empty dict.       *)
name_handler(id) ==
    CASE id = "a" -> RetC(IntV(7))
      [] id = "v" -> ExcC(Exc("ValueError"))
      [] OTHER -> ExcC(Exc("KeyError"))

(* _eval_name: the try block, lines 431-441, then its except KeyError. *)
_eval_name(id) ==
    LET try == IF callable(names) THEN name_handler(id)
               ELSE IF id \in DOMAIN names THEN RetC(names[id])
               ELSE ExcC(Exc("KeyError"))
    IN  IF try.m = "exc" /\ try.exc.k = "KeyError"
        THEN IF id \in DOMAIN functions THEN RetC(functions[id])
             ELSE ExcC(Exc("NameNotDefined"))
        ELSE try

(* eval_names_extra of scope h, down to _eval_name. *)
RECURSIVE eval_names_extra(_, _, _)
eval_names_extra(sc, h, id) ==
    IF h = 0 THEN _eval_name(id)
    ELSE IF id \in DOMAIN sc[h].extra THEN RetC(sc[h].extra[id])
    ELSE eval_names_extra(sc, sc[h].prev, id)

---------------------------------------------------------------------------
(* The machine. *)

To(stk, c) == [stack |-> stk, ctl |-> c]
Go(r)      == stack' = r.stack /\ ctl' = r.ctl

NoReturn == [k |-> "none"]

(* Everything a handler that only moves control leaves alone. *)
quiet == <<config, heap, max_count, iters, gens, hostlog, first_return, calls, entry, last_end>>

(* SimpleExecutor._eval, line 782: the counter after this call of _eval. *)
Bump == IF IsExecutor THEN num_stmts + 1 ELSE num_stmts

(* A variant: the ceiling trips one evaluation late. *)
TooMany_one_late == IsExecutor /\ Bump > MAX_NUM_STATEMENTS + 1

(* SimpleExecutor._eval, line 783. *)
TooMany == IsExecutor /\ Bump > MAX_NUM_STATEMENTS

(* self._eval(node) reaching the handler of a node of this kind. *)
_eval(kind) ==
    /\ ctl.m = "eval" /\ ctl.node.kind = kind
    /\ ~TooMany
    /\ kind \in nodes(cls)
    /\ num_stmts' = Bump
    /\ evals' = evals + 1
    /\ handlers_run' = handlers_run + 1
    /\ after_return' = IF first_return.k = "none" THEN after_return ELSE after_return + 1

(* self._eval(node) raising instead of reaching a handler. *)
_eval_raise ==
    /\ ctl.m = "eval"
    /\ TooMany \/ ctl.node.kind \notin nodes(cls)
    /\ num_stmts' = Bump
    /\ evals' = evals + 1
    /\ ctl' = ExcC(Exc(IF TooMany THEN "TooManyStatements" ELSE "FeatureNotAvailable"))
    /\ UNCHANGED <<stack, handlers_run, after_return, quiet>>

(* A handler's frame is on top and the call it made has returned. *)
Resume(k) ==
    /\ stack # <<>> /\ Top.k = k /\ ctl.m = "ret"
    /\ UNCHANGED <<num_stmts, evals, handlers_run, after_return>>

(* A variant: the loops catch _Break only. *)
Catches_no_continue(f, e) ==
    \/ f.k = "_exec" /\ e.k = "_Return"
    \/ f.k \in {"For", "While"} /\ f.pc = "body" /\ e.k = "_Break"
    \/ f.k = "_do_comprehension"

(* An exception the frame on top handles in an except or finally clause. *)
Catches(f, e) ==
    \/ f.k = "_exec" /\ e.k = "_Return"
    \/ f.k \in {"For", "While"} /\ f.pc = "body" /\ e.k \in {"_Break", "_Continue"}
    \/ f.k = "_do_comprehension"

Caught(k) ==
    /\ stack # <<>> /\ Top.k = k /\ ctl.m = "exc" /\ Catches(Top, ctl.exc)
    /\ UNCHANGED <<num_stmts, evals, handlers_run, after_return>>

(* An exception leaves a frame that does not handle it. *)
Unwind ==
    /\ stack # <<>> /\ ctl.m = "exc" /\ ~Catches(Top, ctl.exc)
    /\ Go(To(Pop(stack), ctl))
    /\ UNCHANGED <<num_stmts, evals, handlers_run, after_return, quiet>>

(* self._exec(body), called with stk as the stack. *)
StartExec(stk, body) ==
    IF body = <<>> THEN To(stk, RetC(None))
    ELSE To(Push(stk, [k |-> "_exec", body |-> body, i |-> 1]), EvalC(body[1]))

_exec ==
    /\ \/ /\ Resume("_exec")
          /\ IF Top.i < Len(Top.body)
             THEN Go(To(SetTop(stack, [Top EXCEPT !.i = @ + 1]), EvalC(Top.body[Top.i + 1])))
             ELSE Go(To(Pop(stack), RetC(None)))
       \/ /\ Caught("_exec")
          /\ Go(To(Pop(stack), RetC(ctl.exc.val)))
    /\ UNCHANGED quiet

(* self._assign(target, value), called with stk as the stack. *)
_assign(stk, target, value) ==
    IF "t" \in DOMAIN names THEN To(stk, ExcC(Exc("TypeError")))     \* names is not a dict
    ELSE IF target.kind \notin assign_nodes(cls) THEN To(stk, ExcC(Exc("FeatureNotAvailable")))
    ELSE IF target.kind = "Name"
    THEN To(Push(stk, [k |-> "_assign_name", id |-> target.id]), EvalC(value))
    ELSE IF target.kind = "Subscript"
    THEN To(Push(stk, [k |-> "_assign_subscript", name |-> target, value |-> value,
                       pc |-> "container", container |-> None, key |-> None]),
            EvalC(target.value))
    ELSE To(Push(stk, [k |-> "_assign_unpack", target |-> target, pc |-> "value",
                       work |-> <<>>]), EvalC(value))

_assign_name ==
    /\ Resume("_assign_name")
    /\ names' = (Top.id :> ctl.val) @@ names
    /\ Go(To(Pop(stack), RetC(None)))
    /\ UNCHANGED <<config, nameHandler, scopes, items, max_count, iters, gens, hostlog, first_return, calls, entry, last_end>>

(* CompoundEvalWithAssignments._assign_subscript: the container, the key, *)
(* the value, then container[key] = value.  The containers the inputs     *)
(* assign to are the host's dicts; a value without item assignment        *)
(* raises TypeError.                                                       *)
_assign_subscript ==
    /\ Resume("_assign_subscript")
    /\ Top.pc = "value" => Top.container.t # "list"
    /\ CASE Top.pc = "container" ->
               /\ Go(To(SetTop(stack, [Top EXCEPT !.pc = "key", !.container = ctl.val]),
                        EvalC(Top.name.slice)))
               /\ UNCHANGED items
         [] Top.pc = "key" ->
               /\ Go(To(SetTop(stack, [Top EXCEPT !.pc = "value", !.key = ctl.val]),
                        EvalC(Top.value)))
               /\ UNCHANGED items
         [] Top.pc = "value" ->
               IF IsDict(Top.container)
               THEN /\ items' = [items EXCEPT ![Top.container.o] = (Top.key :> ctl.val) @@ @]
                    /\ Go(To(Pop(stack), RetC(None)))
               ELSE /\ Go(To(Pop(stack), ExcC(Exc("TypeError"))))
                    /\ UNCHANGED items
    /\ UNCHANGED <<config, names, nameHandler, scopes, max_count, iters, gens, hostlog, first_return, calls, entry, last_end>>

(* SimpleEval._eval_subscript: the container, the key, container[key]. *)
_eval_subscript ==
    /\ \/ /\ _eval("Subscript")
          /\ Go(To(Push(stack, [k |-> "Subscript", node |-> ctl.node, pc |-> "value",
                                container |-> None]),
                   EvalC(ctl.node.value)))
       \/ /\ Resume("Subscript") /\ Top.pc = "value"
          /\ Go(To(SetTop(stack, [Top EXCEPT !.pc = "slice", !.container = ctl.val]),
                   EvalC(Top.node.slice)))
       \/ /\ Resume("Subscript") /\ Top.pc = "slice"
          /\ Go(To(Pop(stack), getitem(Top.container, ctl.val)))
    /\ UNCHANGED quiet

(* A variant: the target is assigned the value alone. *)
_aug_assign_value_alone(stk, target, op, value) == _assign(stk, target, value)

(* EvalWithAssignments._aug_assign: the target is assigned the BinOp of   *)
(* the target, the operator and the value.                                *)
_aug_assign(stk, target, op, value) == _assign(stk, target, BinOp(target, op, value))

_eval_augassign ==
    /\ \/ /\ _eval("AugAssign")
          /\ Go(_aug_assign(Push(stack, [k |-> "AugAssign", node |-> ctl.node]),
                            ctl.node.target, ctl.node.op, ctl.node.value))
       \/ /\ Resume("AugAssign")
          /\ Go(To(Pop(stack), RetC(None)))
    /\ UNCHANGED quiet

_eval_expr ==
    /\ \/ /\ _eval("Expr")
          /\ Go(To(Push(stack, [k |-> "Expr"]), EvalC(ctl.node.value)))
       \/ /\ Resume("Expr")
          /\ Go(To(Pop(stack), ctl))
    /\ UNCHANGED quiet

_eval_assign ==
    /\ \/ /\ _eval("Assign")
          /\ Go(_assign(Push(stack, [k |-> "Assign", node |-> ctl.node, ti |-> 1]),
                        ctl.node.targets[1], ctl.node.value))
       \/ /\ Resume("Assign")
          /\ IF Top.ti < Len(Top.node.targets)
             THEN Go(_assign(SetTop(stack, [Top EXCEPT !.ti = @ + 1]),
                             Top.node.targets[Top.ti + 1], Top.node.value))
             ELSE Go(To(Pop(stack), RetC(None)))
    /\ UNCHANGED quiet

_FinalValue ==
    /\ _eval("_FinalValue")
    /\ Go(To(stack, RetC(ctl.node.value)))
    /\ UNCHANGED quiet

_eval_constant ==
    /\ _eval("Constant")
    /\ IF ctl.node.value.t = "str" /\ Len(ctl.node.value.s) > MAX_STRING_LENGTH
       THEN Go(To(stack, ExcC(Exc("IterableTooLong"))))
       ELSE Go(To(stack, RetC(ctl.node.value)))
    /\ UNCHANGED quiet

(* _eval_joinedstr, lines 503-511.  The variable length stays 0. *)
_eval_joinedstr ==
    /\ \/ /\ _eval("JoinedStr")
          /\ IF ctl.node.values = <<>> THEN Go(To(stack, RetC(StrV(<<>>))))
             ELSE Go(To(Push(stack, [k |-> "JoinedStr", node |-> ctl.node,
                                     evaluated_values |-> <<>>, n |-> 1]),
                        EvalC(ctl.node.values[1])))
       \/ /\ Resume("JoinedStr")
          /\ LET val    == str(ctl.val)
                 length == 0
                 done   == Top.evaluated_values \o val
             IN IF Len(val) + length > MAX_STRING_LENGTH
                THEN Go(To(Pop(stack), ExcC(Exc("IterableTooLong"))))
                ELSE IF Top.n < Len(Top.node.values)
                THEN Go(To(SetTop(stack, [Top EXCEPT !.evaluated_values = done, !.n = @ + 1]),
                           EvalC(Top.node.values[Top.n + 1])))
                ELSE Go(To(Pop(stack), RetC(StrV(done))))
    /\ UNCHANGED quiet

(* _eval_formattedvalue, line 517: without a format_spec, the value. *)
_eval_formattedvalue ==
    /\ _eval("FormattedValue")
    /\ Go(To(stack, EvalC(ctl.node.value)))
    /\ UNCHANGED quiet

(* self.nodes[ast.Name](node): _eval_name or the closure a comprehension installed. *)
_eval_name_node ==
    /\ _eval("Name")
    /\ Go(To(stack, eval_names_extra(scopes, nameHandler, ctl.node.id)))
    /\ UNCHANGED quiet

---------------------------------------------------------------------------
(* Destructuring: CompoundEvalWithAssignments._assign_unpack. *)

Zip(ts, vs) == [j \in 1..Len(ts) |-> [t |-> ts[j], v |-> vs[j]]]

(* do_assign over the pairs still to do, up to its next call of self._assign. *)
(* list(iter(value)) of a value that ends. *)
list(v) == IF v.t = "str" THEN [j \in 1..Len(v.s) |-> StrV(<<v.s[j]>>)] ELSE v.items

(* A variant: zip pairs the names with the values without the test of   *)
(* their number.                                                         *)
RECURSIVE do_assign_unequal(_)
do_assign_unequal(work) ==
    IF work = <<>> THEN [r |-> "done"]
    ELSE LET h == Head(work) IN
         IF h.t.kind \notin {"Tuple", "List"}
         THEN [r |-> "assign", target |-> h.t, value |-> h.v, rest |-> Tail(work)]
         ELSE IF h.v.t = "count" THEN [r |-> "hang"]
         ELSE IF ~Iterable(h.v) THEN [r |-> "exc", exc |-> Exc("InvalidExpression")]
         ELSE LET n == IF Len(h.t.elts) < Len(list(h.v)) THEN Len(h.t.elts)
                       ELSE Len(list(h.v))
              IN do_assign_unequal(Zip(SubSeq(h.t.elts, 1, n), list(h.v)) \o Tail(work))

RECURSIVE do_assign(_)
do_assign(work) ==
    IF work = <<>> THEN [r |-> "done"]
    ELSE LET h == Head(work) IN
         IF h.t.kind \notin {"Tuple", "List"}
         THEN [r |-> "assign", target |-> h.t, value |-> h.v, rest |-> Tail(work)]
         ELSE IF h.v.t = "count" THEN [r |-> "hang"]
         ELSE IF ~Iterable(h.v) THEN [r |-> "exc", exc |-> Exc("InvalidExpression")]
         ELSE IF Len(h.t.elts) # Len(list(h.v))
         THEN [r |-> "exc", exc |-> Exc("InvalidExpression")]
         ELSE do_assign(Zip(h.t.elts, list(h.v)) \o Tail(work))

_assign_unpack ==
    /\ Resume("_assign_unpack")
    /\ LET d == do_assign(IF Top.pc = "value"
                          THEN <<[t |-> Top.target, v |-> ctl.val]>> ELSE Top.work) IN
       CASE d.r = "done" -> Go(To(Pop(stack), RetC(None)))
         [] d.r = "exc" -> Go(To(Pop(stack), ExcC(d.exc)))
         [] d.r = "hang" -> Go(To(stack, HangC(0)))
         [] d.r = "assign" ->
              Go(_assign(SetTop(stack, [Top EXCEPT !.pc = "item", !.work = d.rest]),
                         d.target, FinalValue(d.value)))
    /\ UNCHANGED quiet

(* list(iter(value)) at line 734 drawing from an iterable that never ends: *)
(* the list grows item by item, until the host runs out of memory if it    *)
(* ever does.                                                               *)
list_iter_unbounded ==
    /\ ctl.m = "hang"
    /\ ctl' \in {HangC(1 - ctl.tick), ExcC(Exc("MemoryError"))}
    /\ UNCHANGED <<stack, num_stmts, evals, handlers_run, after_return, quiet>>

---------------------------------------------------------------------------
(* Statements: SimpleExecutor and ExecutorWithControl. *)

_exec_return ==
    \/ /\ _eval("Return")
       /\ Go(To(Push(stack, [k |-> "Return"]), EvalC(ctl.node.value)))
       /\ UNCHANGED quiet
    \/ /\ Resume("Return")
       /\ Go(To(Pop(stack), ExcC(Return_(ctl.val))))
       /\ first_return' = IF first_return.k = "none" THEN Return_(ctl.val) ELSE first_return
       /\ UNCHANGED <<config, heap, max_count, iters, gens, hostlog, calls, entry, last_end>>

_exec_break ==
    /\ _eval("Break")
    /\ Go(To(stack, ExcC(Break_)))
    /\ UNCHANGED quiet

_exec_continue ==
    /\ _eval("Continue")
    /\ Go(To(stack, ExcC(Continue_)))
    /\ UNCHANGED quiet

_exec_pass ==
    /\ _eval("Pass")
    /\ Go(To(stack, RetC(None)))
    /\ UNCHANGED quiet

_exec_if ==
    /\ \/ /\ _eval("If")
          /\ Go(To(Push(stack, [k |-> "If", node |-> ctl.node, pc |-> "test"]),
                   EvalC(ctl.node.test)))
       \/ /\ Resume("If") /\ Top.pc = "test"
          /\ Go(StartExec(SetTop(stack, [Top EXCEPT !.pc = "block"]),
                          IF Truthy(ctl.val) THEN Top.node.body ELSE Top.node.orelse))
       \/ /\ Resume("If") /\ Top.pc = "block"
          /\ Go(To(Pop(stack), RetC(None)))
    /\ UNCHANGED quiet

(* A variant: the for loop draws its items without counting them. *)
for_next_uncounted(f) ==
    IF HasNext(f.it, f.idx)
    THEN /\ max_count' = max_count
         /\ iters' = iters + 1
         /\ Go(_assign(SetTop(stack, [f EXCEPT !.pc = "bind", !.idx = @ + 1]),
                       f.node.target, FinalValue(Item(f.it, f.idx + 1))))
    ELSE /\ Go(StartExec(SetTop(stack, [f EXCEPT !.pc = "orelse"]), f.node.orelse))
         /\ UNCHANGED <<max_count, iters>>

(* The head of the for statement, f being its frame: draw the next item, *)
(* count it, bind the target.                                            *)
for_next(f) ==
    IF HasNext(f.it, f.idx)
    THEN /\ max_count' = max_count + 1
         /\ iters' = iters + 1
         /\ IF max_count + 1 > MAX_COMPREHENSION_LENGTH
            THEN Go(To(stack, ExcC(Exc("IterableTooLong"))))
            ELSE Go(_assign(SetTop(stack, [f EXCEPT !.pc = "bind", !.idx = @ + 1]),
                            f.node.target, FinalValue(Item(f.it, f.idx + 1))))
    ELSE /\ Go(StartExec(SetTop(stack, [f EXCEPT !.pc = "orelse"]), f.node.orelse))
         /\ UNCHANGED <<max_count, iters>>

_exec_for ==
    /\ \/ /\ _eval("For")
          /\ Go(To(Push(stack, [k |-> "For", node |-> ctl.node, pc |-> "iter",
                                it |-> None, idx |-> 0]), EvalC(ctl.node.iter)))
          /\ UNCHANGED <<max_count, iters>>
       \/ /\ Resume("For") /\ Top.pc = "iter"
          /\ IF Iterable(ctl.val)
             THEN for_next([Top EXCEPT !.it = ctl.val])
             ELSE /\ Go(To(Pop(stack), ExcC(Exc("TypeError"))))
                  /\ UNCHANGED <<max_count, iters>>
       \/ /\ Resume("For") /\ Top.pc = "bind"
          /\ Go(StartExec(SetTop(stack, [Top EXCEPT !.pc = "body"]), Top.node.body))
          /\ UNCHANGED <<max_count, iters>>
       \/ /\ Resume("For") /\ Top.pc = "body"
          /\ for_next(Top)
       \/ /\ Caught("For") /\ ctl.exc.k = "_Continue"
          /\ for_next(Top)
       \/ /\ Caught("For") /\ ctl.exc.k = "_Break"
          /\ Go(To(Pop(stack), RetC(None)))
          /\ UNCHANGED <<max_count, iters>>
       \/ /\ Resume("For") /\ Top.pc = "orelse"
          /\ Go(To(Pop(stack), RetC(None)))
          /\ UNCHANGED <<max_count, iters>>
    /\ UNCHANGED <<config, heap, gens, hostlog, first_return, calls, entry, last_end>>

_exec_while ==
    /\ \/ /\ _eval("While")
          /\ Go(To(Push(stack, [k |-> "While", node |-> ctl.node, pc |-> "test"]),
                   EvalC(ctl.node.test)))
          /\ UNCHANGED <<max_count, iters>>
       \/ /\ Resume("While") /\ Top.pc = "test"
          /\ IF Truthy(ctl.val)
             THEN /\ max_count' = max_count + 1
                  /\ iters' = iters + 1
                  /\ IF max_count + 1 > MAX_COMPREHENSION_LENGTH
                     THEN Go(To(stack, ExcC(Exc("IterableTooLong"))))
                     ELSE Go(StartExec(SetTop(stack, [Top EXCEPT !.pc = "body"]),
                                       Top.node.body))
             ELSE /\ Go(StartExec(SetTop(stack, [Top EXCEPT !.pc = "orelse"]),
                                  Top.node.orelse))
                  /\ UNCHANGED <<max_count, iters>>
       \/ /\ \/ Resume("While") /\ Top.pc = "body"
             \/ Caught("While") /\ ctl.exc.k = "_Continue"
          /\ Go(To(SetTop(stack, [Top EXCEPT !.pc = "test"]), EvalC(Top.node.test)))
          /\ UNCHANGED <<max_count, iters>>
       \/ /\ Caught("While") /\ ctl.exc.k = "_Break"
          /\ Go(To(Pop(stack), RetC(None)))
          /\ UNCHANGED <<max_count, iters>>
       \/ /\ Resume("While") /\ Top.pc = "orelse"
          /\ Go(To(Pop(stack), RetC(None)))
          /\ UNCHANGED <<max_count, iters>>
    /\ UNCHANGED <<config, heap, gens, hostlog, first_return, calls, entry, last_end>>

---------------------------------------------------------------------------
(* Expressions: SimpleEval and EvalWithCompoundTypes. *)

(* Python's len, abs, ** and sequence repetition on the values of the model. *)
hasattr_len(v) == v.t \in {"str", "list", "tuple"}
len(v) == IF v.t = "str" THEN Len(v.s) ELSE Len(v.items)
abs(n) == IF n < 0 THEN -n ELSE n
RECURSIVE pow(_, _)
pow(a, b) == IF b = 0 THEN 1 ELSE a * pow(a, b - 1)
RECURSIVE repeat(_, _)
repeat(s, n) == IF n <= 0 THEN <<>> ELSE s \o repeat(s, n - 1)

(* A variant: the ceiling is the one the import set. *)
safe_power_imported_ceiling(a, b) ==
    IF a.t # "int" \/ b.t # "int" THEN ExcC(Exc("TypeError"))
    ELSE IF abs(a.n) > MAX_POWER \/ abs(b.n) > MAX_POWER
    THEN ExcC(Exc("NumberTooHigh"))
    ELSE IF b.n >= 0 THEN RetC(IntV(pow(a.n, b.n)))
    ELSE IF a.n = 0 THEN ExcC(Exc("ZeroDivisionError"))
    ELSE RetC(FloatV(IF a.n < 0 /\ b.n % 2 = 1 THEN -1 ELSE 1, pow(abs(a.n), -b.n)))

(* safe_power, lines 205-211; a negative exponent gives a float. *)
safe_power(a, b) ==
    IF a.t # "int" \/ b.t # "int" THEN ExcC(Exc("TypeError"))
    ELSE IF abs(a.n) > simpleeval.MAX_POWER \/ abs(b.n) > simpleeval.MAX_POWER
    THEN ExcC(Exc("NumberTooHigh"))
    ELSE IF b.n >= 0 THEN RetC(IntV(pow(a.n, b.n)))
    ELSE IF a.n = 0 THEN ExcC(Exc("ZeroDivisionError"))
    ELSE RetC(FloatV(IF a.n < 0 /\ b.n % 2 = 1 THEN -1 ELSE 1, pow(abs(a.n), -b.n)))

(* a * b of Python, one operand at least not being a number. *)
mul(a, b) ==
    CASE hasattr_len(a) /\ b.t = "int" ->
            RetC(IF a.t = "str" THEN StrV(repeat(a.s, b.n))
                 ELSE [t |-> a.t, items |-> repeat(a.items, b.n)])
      [] hasattr_len(b) /\ a.t = "int" ->
            RetC(IF b.t = "str" THEN StrV(repeat(b.s, a.n))
                 ELSE [t |-> b.t, items |-> repeat(b.items, a.n)])
      [] OTHER -> ExcC(Exc("TypeError"))

(* A variant: a product of the length MAX_STRING_LENGTH is refused too. *)
safe_mult_refuses_equal(a, b) ==
    IF a.t = "int" /\ b.t = "int" THEN RetC(IntV(a.n * b.n))
    ELSE IF hasattr_len(a) /\ b.t # "int" THEN ExcC(Exc("TypeError"))
    ELSE IF hasattr_len(a) /\ b.n * len(a) >= MAX_STRING_LENGTH
    THEN ExcC(Exc("IterableTooLong"))
    ELSE IF hasattr_len(b) /\ a.t # "int" THEN ExcC(Exc("TypeError"))
    ELSE IF hasattr_len(b) /\ a.n * len(b) >= MAX_STRING_LENGTH
    THEN ExcC(Exc("IterableTooLong"))
    ELSE mul(a, b)

(* safe_mult, lines 214-222: the length of the product is looked at first. *)
safe_mult(a, b) ==
    IF a.t = "int" /\ b.t = "int" THEN RetC(IntV(a.n * b.n))
    ELSE IF hasattr_len(a) /\ b.t # "int" THEN ExcC(Exc("TypeError"))
    ELSE IF hasattr_len(a) /\ b.n * len(a) > MAX_STRING_LENGTH
    THEN ExcC(Exc("IterableTooLong"))
    ELSE IF hasattr_len(b) /\ a.t # "int" THEN ExcC(Exc("TypeError"))
    ELSE IF hasattr_len(b) /\ a.n * len(b) > MAX_STRING_LENGTH
    THEN ExcC(Exc("IterableTooLong"))
    ELSE mul(a, b)

(* A comparison of the host's object p: its __gt__ and __lt__ return a    *)
(* proxy of the comparison made, which is also what the reflected         *)
(* comparison of a number with p returns.                                 *)
reflected(o) == IF o = "Gt" THEN "Lt" ELSE "Gt"
rich_compare(o, a, b) ==
    IF o \notin {"Lt", "Gt"} THEN ExcC(Exc("TypeError"))
    ELSE IF a = Obj("p") THEN RetC(Proxy(o))
    ELSE IF b = Obj("p") THEN RetC(Proxy(reflected(o)))
    ELSE ExcC(Exc("TypeError"))

(* The default operators on the values of the model. *)
Operate(o, a, b) ==
    CASE o = "Pow" -> safe_power(a, b)
      [] o = "Mult" -> safe_mult(a, b)
      [] a.t # "int" \/ b.t # "int" -> rich_compare(o, a, b)
      [] o = "Add" -> RetC(IntV(a.n + b.n))
      [] o = "Sub" -> RetC(IntV(a.n - b.n))
      [] o = "Lt"  -> RetC(BoolV(a.n < b.n))
      [] o = "Gt"  -> RetC(BoolV(a.n > b.n))
      [] o = "Eq"  -> RetC(BoolV(a.n = b.n))

(* The default unary operators. *)
OperateUnary(o, a) ==
    CASE o = "Not" -> RetC(BoolV(~Truthy(a)))
      [] a.t # "int" -> ExcC(Exc("TypeError"))
      [] o = "USub" -> RetC(IntV(-a.n))
      [] o = "UAdd" -> RetC(a)

(* _eval_unaryop, lines 371-372: the operator is looked up, the operand   *)
(* evaluated, the operator applied.                                       *)
_eval_unaryop ==
    /\ \/ /\ _eval("UnaryOp")
          /\ IF ctl.node.op \notin operators
             THEN Go(To(stack, ExcC(Exc("KeyError"))))
             ELSE Go(To(Push(stack, [k |-> "UnaryOp", node |-> ctl.node]),
                        EvalC(ctl.node.operand)))
       \/ /\ Resume("UnaryOp")
          /\ Go(To(Pop(stack), OperateUnary(Top.node.op, ctl.val)))
    /\ UNCHANGED quiet

(* _eval_binop, lines 374-376: the operator is looked up before the       *)
(* operands are evaluated.                                                *)
_eval_binop ==
    /\ \/ /\ _eval("BinOp")
          /\ IF ctl.node.op \notin operators
             THEN Go(To(stack, ExcC(Exc("KeyError"))))
             ELSE Go(To(Push(stack, [k |-> "BinOp", node |-> ctl.node, pc |-> "left",
                                     left |-> None]), EvalC(ctl.node.left)))
       \/ /\ Resume("BinOp") /\ Top.pc = "left"
          /\ Go(To(SetTop(stack, [Top EXCEPT !.pc = "right", !.left = ctl.val]),
                   EvalC(Top.node.right)))
       \/ /\ Resume("BinOp") /\ Top.pc = "right"
          /\ Go(To(Pop(stack), Operate(Top.node.op, Top.left, ctl.val)))
    /\ UNCHANGED quiet

(* A variant: the loop goes on after a relation that does not hold. *)
compare_loop_no_break(f, i) ==
    IF i > Len(f.node.ops) THEN To(Pop(stack), RetC(f.to_return))
    ELSE To(SetTop(stack, [f EXCEPT !.i = i]), EvalC(f.node.comparators[i]))

(* A variant: the result is returned as a bool. *)
compare_loop_returns_bool(f, i) ==
    IF i > Len(f.node.ops) THEN To(Pop(stack), RetC(BoolV(Truthy(f.to_return))))
    ELSE IF f.to_return.t = "proxy" THEN To(Pop(stack), ExcC(Exc("TypeError")))
    ELSE IF ~Truthy(f.to_return) THEN To(Pop(stack), RetC(f.to_return))
    ELSE To(SetTop(stack, [f EXCEPT !.i = i]), EvalC(f.node.comparators[i]))

(* The loop of _eval_compare before its i-th comparator, f being its frame. *)
compare_loop(f, i) ==
    IF i > Len(f.node.ops) THEN To(Pop(stack), RetC(f.to_return))
    ELSE IF f.to_return.t = "proxy" THEN To(Pop(stack), ExcC(Exc("TypeError")))
    ELSE IF ~Truthy(f.to_return) THEN To(Pop(stack), RetC(f.to_return))
    ELSE To(SetTop(stack, [f EXCEPT !.i = i]), EvalC(f.node.comparators[i]))

_eval_compare ==
    /\ \/ /\ _eval("Compare")
          /\ Go(To(Push(stack, [k |-> "Compare", node |-> ctl.node, i |-> 0,
                                right |-> None, to_return |-> BoolV(TRUE)]),
                   EvalC(ctl.node.left)))
       \/ /\ Resume("Compare") /\ Top.i = 0
          /\ Go(compare_loop([Top EXCEPT !.right = ctl.val], 1))
       \/ /\ Resume("Compare") /\ Top.i > 0
          /\ LET r == IF Top.node.ops[Top.i] \notin operators THEN ExcC(Exc("KeyError"))
                      ELSE Operate(Top.node.ops[Top.i], Top.right, ctl.val) IN
             IF r.m = "exc" THEN Go(To(Pop(stack), r))
             ELSE Go(compare_loop([Top EXCEPT !.right = ctl.val, !.to_return = r.val],
                                  Top.i + 1))
    /\ UNCHANGED quiet

_eval_list ==
    /\ \/ /\ \E kind \in {"List", "Tuple"} : _eval(kind)
          /\ IF ctl.node.elts = <<>>
             THEN Go(To(stack, RetC([t |-> IF ctl.node.kind = "List" THEN "list" ELSE "tuple",
                                     items |-> <<>>])))
             ELSE Go(To(Push(stack, [k |-> "List", node |-> ctl.node, vals |-> <<>>]),
                        EvalC(ctl.node.elts[1])))
       \/ /\ Resume("List")
          /\ LET vs == Append(Top.vals, ctl.val) IN
             IF Len(vs) < Len(Top.node.elts)
             THEN Go(To(SetTop(stack, [Top EXCEPT !.vals = vs]),
                        EvalC(Top.node.elts[Len(vs) + 1])))
             ELSE Go(To(Pop(stack),
                        RetC([t |-> IF Top.node.kind = "List" THEN "list" ELSE "tuple",
                              items |-> vs])))
    /\ UNCHANGED quiet

(* _eval_attribute, lines 461-470: the attribute name is blocked. *)
(* A variant: DISALLOW_METHODS is not consulted. *)
Disallowed_prefixes_only(attr) ==
    \E prefix \in simpleeval.DISALLOW_PREFIXES : startswith(attr, prefix)
Disallowed(attr) ==
    \/ \E prefix \in simpleeval.DISALLOW_PREFIXES : startswith(attr, prefix)
    \/ attr \in simpleeval.DISALLOW_METHODS

(* _eval_attribute, lines 475-488: getattr, then the index fallback. *)
lookup_attribute(v, attr) ==
    LET native   == getattr(v, attr)
        fallback == getitem(v, StrV(attr))
    IN  IF ~(native.m = "exc" /\ native.exc.k \in {"AttributeError", "TypeError"})
        THEN native
        ELSE IF ATTR_INDEX_FALLBACK
                /\ ~(fallback.m = "exc" /\ fallback.exc.k \in {"KeyError", "TypeError"})
        THEN fallback
        ELSE ExcC(Exc("AttributeDoesNotExist"))

_eval_attribute ==
    \/ /\ _eval("Attribute")
       /\ IF Disallowed(ctl.node.attr)
          THEN Go(To(stack, ExcC(Exc("FeatureNotAvailable"))))
          ELSE Go(To(Push(stack, [k |-> "Attribute", node |-> ctl.node]),
                     EvalC(ctl.node.value)))
       /\ UNCHANGED quiet
    \/ /\ Resume("Attribute")
       /\ reads' = reads \cup {Top.node.attr}
       /\ Go(To(Pop(stack), lookup_attribute(ctl.val, Top.node.attr)))
       /\ UNCHANGED <<config, heap, max_count, iters, gens, ran, invoked, first_return, calls, entry, last_end>>

(* _eval_call, line 422: the host callable is invoked; stk is the stack it returns to. *)
call_func(stk, func, args) ==
    IF func.t # "fn"
    THEN /\ Go(To(stk, ExcC(Exc("TypeError"))))
         /\ UNCHANGED <<ran, invoked>>
    ELSE /\ invoked' = invoked \cup {func.f}
         /\ ran' = IF func.f = "mark" THEN Append(ran, HostCall(func.f, args)) ELSE ran
         /\ Go(To(stk, RetC(HostCall(func.f, args))))

(* _eval_call, lines 422-425, f being its frame above stk: the arguments, then the call. *)
call_args(stk, f) ==
    IF Len(f.vals) < Len(f.node.args)
    THEN /\ Go(To(Push(stk, [f EXCEPT !.pc = "args"]), EvalC(f.node.args[Len(f.vals) + 1])))
         /\ UNCHANGED <<ran, invoked>>
    ELSE call_func(stk, f.func, f.vals)

_eval_call ==
    /\ \/ /\ _eval("Call")
          /\ LET f == [k |-> "Call", node |-> ctl.node, pc |-> "func", func |-> None,
                       vals |-> <<>>]
                 fn == ctl.node.func IN
             IF fn.kind = "Attribute"
             THEN /\ Go(To(Push(stack, f), EvalC(fn)))
                  /\ UNCHANGED <<ran, invoked>>
             ELSE IF fn.kind # "Name" \/ fn.id \notin DOMAIN functions
                     \/ functions[fn.id] \in simpleeval.DISALLOW_FUNCTIONS
             THEN /\ Go(To(stack, ExcC(Exc(
                        IF fn.kind # "Name" THEN "FeatureNotAvailable"
                        ELSE IF fn.id \notin DOMAIN functions THEN "FunctionNotDefined"
                        ELSE "FeatureNotAvailable"))))
                  /\ UNCHANGED <<ran, invoked>>
             ELSE call_args(stack, [f EXCEPT !.func = functions[fn.id]])
       \/ /\ Resume("Call") /\ Top.pc = "func"
          /\ call_args(Pop(stack), [Top EXCEPT !.func = ctl.val])
       \/ /\ Resume("Call") /\ Top.pc = "args"
          /\ call_args(Pop(stack), [Top EXCEPT !.vals = Append(@, ctl.val)])
    /\ UNCHANGED <<config, heap, max_count, iters, gens, reads, first_return, calls, entry, last_end>>

---------------------------------------------------------------------------
(* Comprehensions: EvalWithCompoundTypes._do_comprehension, a generator.  *)
(* Its frame stays on the stack while list() drives it; a generator       *)
(* object the host drives keeps its frame in gens between two next().     *)

CompFrame(node, g) ==
    [k |-> "_do_comprehension", node |-> node, g |-> g, scope |-> 0, its |-> <<>>,
     pc |-> "start", j |-> 0]

(* recurse_targets, lines 597-606 (the value of a tuple target is a sequence). *)
RECURSIVE recurse_targets(_, _, _)
RECURSIVE recurse_zip(_, _, _, _)
recurse_targets(extra, target, value) ==
    IF target.kind = "Name" THEN (target.id :> value) @@ extra
    ELSE recurse_zip(extra, target.elts, value.items, 1)
recurse_zip(extra, ts, vs, j) ==
    IF j > Len(ts) \/ j > Len(vs) THEN extra
    ELSE recurse_zip(recurse_targets(extra, ts[j], vs[j]), ts, vs, j + 1)

(* The closures still referred to: by the dispatch table, by a frame, by a generator. *)
RECURSIVE Chain(_, _)
Chain(sc, h) == IF h = 0 THEN {} ELSE {h} \cup Chain(sc, sc[h].prev)
LiveScopes(stk, gs) ==
    {stk[n].scope : n \in {n \in 1..Len(stk) : stk[n].k = "_do_comprehension"}}
    \cup {gs[g].frame.scope : g \in {g \in 1..Len(gs) : gs[g].state = "suspended"}}
RECURSIVE Trim(_, _)
Trim(sc, refs) == IF sc # <<>> /\ Len(sc) \notin refs THEN Trim(Pop(sc), refs) ELSE sc
Collect(sc, h, stk, gs) ==
    Trim(sc, UNION {Chain(sc, n) : n \in LiveScopes(stk, gs) \cup {h}})

Closed == [state |-> "closed", frame |-> None]
CloseGen(gs, g) == IF g = 0 THEN gs ELSE [gs EXCEPT ![g] = Closed]

(* The finally clause, lines 635-636, f being the frame that is left. *)
comp_finally(f) ==
    /\ nameHandler' = scopes[f.scope].prev
    /\ gens' = CloseGen(gens, f.g)
    /\ scopes' = Collect(scopes, scopes[f.scope].prev, Pop(stack), CloseGen(gens, f.g))

(* do_generator after the filters of clause gi passed: the next clause, or the value. *)
comp_proceed(f) ==
    IF Len(f.node.generators) > Len(f.its)
    THEN To(SetTop(stack, [f EXCEPT !.pc = "iter"]),
            EvalC(f.node.generators[Len(f.its) + 1].iter))
    ELSE To(SetTop(stack, [f EXCEPT !.pc = "elt"]), EvalC(f.node.elt))

(* do_generator, lines 615-623: the for of the innermost running clause. *)
comp_next(f) ==
    LET gi == Len(f.its) IN
    IF gi = 0
    THEN /\ comp_finally(f)
         /\ Go(To(Pop(stack), StopC))
         /\ UNCHANGED <<max_count, iters>>
    ELSE IF ~HasNext(f.its[gi].it, f.its[gi].idx)
    THEN /\ Go(To(SetTop(stack, [f EXCEPT !.its = Pop(@), !.pc = "next"]), ResumeC))
         /\ UNCHANGED <<max_count, iters, nameHandler, scopes, gens>>
    ELSE /\ max_count' = max_count + 1
         /\ iters' = iters + 1
         /\ UNCHANGED <<nameHandler, gens>>
         /\ IF max_count + 1 > MAX_COMPREHENSION_LENGTH
            THEN /\ Go(To(SetTop(stack, f), ExcC(Exc("IterableTooLong"))))
                 /\ UNCHANGED scopes
            ELSE LET c  == f.node.generators[gi]
                     f2 == [f EXCEPT !.its[gi].idx = @ + 1]
                 IN /\ scopes' = [scopes EXCEPT ![f.scope].extra =
                                    recurse_targets(@, c.target,
                                                    Item(f.its[gi].it, f.its[gi].idx + 1))]
                    /\ IF c.ifs # <<>>
                       THEN Go(To(SetTop(stack, [f2 EXCEPT !.pc = "if", !.j = 1]),
                                  EvalC(c.ifs[1])))
                       ELSE Go(comp_proceed(f2))

Steady == UNCHANGED <<num_stmts, evals, handlers_run, after_return>>

_do_comprehension ==
    /\ stack # <<>> /\ Top.k = "_do_comprehension"
    /\ \/ /\ ctl.m = "resume" /\ Top.pc = "start" /\ Steady
          /\ scopes' = Append(scopes, [extra |-> Empty, prev |-> nameHandler])
          /\ nameHandler' = Len(scopes) + 1
          /\ Go(To(SetTop(stack, [Top EXCEPT !.scope = Len(scopes) + 1, !.pc = "iter"]),
                   EvalC(Top.node.generators[1].iter)))
          /\ UNCHANGED <<max_count, iters, gens>>
       \/ /\ Resume("_do_comprehension") /\ Top.pc = "iter"
          /\ IF Iterable(ctl.val)
             THEN comp_next([Top EXCEPT !.its = Append(@, [it |-> ctl.val, idx |-> 0])])
             ELSE /\ Go(To(stack, ExcC(Exc("TypeError"))))
                  /\ UNCHANGED <<max_count, iters, nameHandler, scopes, gens>>
       \/ /\ ctl.m = "resume" /\ Top.pc = "next" /\ Steady
          /\ comp_next(Top)
       \/ /\ Resume("_do_comprehension") /\ Top.pc = "if"
          /\ IF ~Truthy(ctl.val) THEN comp_next(Top)
             ELSE /\ LET ifs == Top.node.generators[Len(Top.its)].ifs IN
                     IF Top.j < Len(ifs)
                     THEN Go(To(SetTop(stack, [Top EXCEPT !.j = @ + 1]), EvalC(ifs[Top.j + 1])))
                     ELSE Go(comp_proceed(Top))
                  /\ UNCHANGED <<max_count, iters, nameHandler, scopes, gens>>
       \/ /\ Resume("_do_comprehension") /\ Top.pc = "elt"
          /\ Go(To(SetTop(stack, [Top EXCEPT !.pc = "next"]), YieldC(ctl.val)))
          /\ UNCHANGED <<max_count, iters, nameHandler, scopes, gens>>
       \/ /\ Caught("_do_comprehension")
          /\ comp_finally(Top)
          /\ Go(To(Pop(stack), ctl))
          /\ UNCHANGED <<max_count, iters>>
    /\ UNCHANGED <<config, names, items, hostlog, first_return, calls, entry, last_end>>

(* _eval_listcomp: list(self._do_comprehension(node)). *)
_eval_listcomp ==
    /\ \/ /\ _eval("ListComp")
          /\ Go(To(stack \o <<[k |-> "_eval_listcomp", out |-> <<>>], CompFrame(ctl.node, 0)>>,
                   ResumeC))
       \/ /\ Len(stack) >= 2 /\ stack[Len(stack) - 1].k = "_eval_listcomp"
          /\ ctl.m = "yield" /\ Steady
          /\ Go(To([stack EXCEPT ![Len(stack) - 1].out = Append(@, ctl.val)], ResumeC))
       \/ /\ stack # <<>> /\ Top.k = "_eval_listcomp" /\ ctl.m = "stop" /\ Steady
          /\ Go(To(Pop(stack), RetC(ListV(Top.out))))
    /\ UNCHANGED quiet

(* _eval_generatorexp: a generator object; nothing of its body has run. *)
_eval_generatorexp ==
    /\ _eval("GeneratorExp")
    /\ gens' = Append(gens, [state |-> "created", frame |-> CompFrame(ctl.node, Len(gens) + 1)])
    /\ Go(To(stack, RetC(GenV(Len(gens) + 1))))
    /\ UNCHANGED <<config, heap, max_count, iters, hostlog, first_return, calls, entry, last_end>>

(* The host calls next() on a generator object an earlier call returned. *)
host_next ==
    \E g \in 1..Len(gens) :
       /\ ~Running /\ gens[g].state \in {"created", "suspended"}
       /\ Go(To(<<[k |-> "next", g |-> g], gens[g].frame>>, ResumeC))
       /\ gens' = [gens EXCEPT ![g] = [state |-> "running", frame |-> None]]
       /\ entry' = "next"
       /\ Steady
       /\ UNCHANGED <<config, heap, max_count, iters, hostlog, first_return, calls, last_end>>

(* next() returns to the host: the value yielded, or StopIteration. *)
next_return ==
    /\ Steady
    /\ \/ /\ Len(stack) = 2 /\ stack[1].k = "next" /\ ctl.m = "yield"
          /\ gens' = [gens EXCEPT ![stack[1].g] = [state |-> "suspended", frame |-> Top]]
          /\ Go(To(<<>>, RetC(ctl.val)))
       \/ /\ stack # <<>> /\ Top.k = "next" /\ ctl.m = "stop"
          /\ Go(To(<<>>, ExcC(Exc("StopIteration"))))
          /\ UNCHANGED gens
    /\ UNCHANGED <<config, heap, max_count, iters, hostlog, first_return, calls, entry, last_end>>

(* The host drops or closes a generator object: GeneratorExit at its yield. *)
host_close ==
    \E g \in 1..Len(gens) :
       /\ ~Running /\ gens[g].state \in {"created", "suspended"}
       /\ IF gens[g].state = "suspended"
          THEN /\ nameHandler' = scopes[gens[g].frame.scope].prev
               /\ scopes' = Collect(scopes, scopes[gens[g].frame.scope].prev, <<>>,
                                    CloseGen(gens, g))
          ELSE UNCHANGED <<nameHandler, scopes>>
       /\ gens' = CloseGen(gens, g)
       /\ Steady
       /\ UNCHANGED <<config, names, items, machine, max_count, iters, hostlog, first_return, calls, entry, last_end>>

---------------------------------------------------------------------------
(* The inputs the calls are made with. *)

MaxDepth == 2
MaxGens == 2

Mark(n) == Expr(Call(Name("mark"), <<Num(n)>>))
XLt2    == Compare(Name("x"), <<"Lt">>, <<Num(2)>>)
IncX    == Assign(<<Name("x")>>, BinOp(Name("x"), "Add", Num(1)))
L12     == ListN(<<Num(1), Num(2)>>)
L123    == ListN(<<Num(1), Num(2), Num(3)>>)

(* A block b put into the body of an if, the else of an if, a for, a while. *)
Wrap(w, b) ==
    CASE w = "if"    -> <<If(TrueN, b, <<>>)>>
      [] w = "else"  -> <<If(FalseN, <<PassS>>, b)>>
      [] w = "for"   -> <<For(Name("i"), L12, b, <<Mark(8)>>)>>
      [] w = "while" -> <<While(XLt2, <<IncX>> \o b, <<Mark(9)>>)>>

RECURSIVE WrapAll(_, _)
WrapAll(ws, b) == IF ws = <<>> THEN b ELSE Wrap(Head(ws), WrapAll(Tail(ws), b))

Cores == {<<Mark(1), ReturnS(Num(7)), Mark(2)>>,
          <<Mark(1), BreakS, Mark(2)>>,
          <<Mark(1), ContinueS, Mark(2)>>}
Nestings == UNION {[1..n -> {"if", "else", "for", "while"}] : n \in 0..MaxDepth}
NestedPrograms ==
    {<<Assign(<<Name("x")>>, Num(0))>> \o WrapAll(ws, c) \o <<Mark(3), ReturnS(Num(5))>> :
        ws \in Nestings, c \in Cores}

Comp(e, t, it)  == ListComp(e, <<Clause(Name(t), it, <<>>)>>)
AB              == TupleN(<<Name("a"), Name("b")>>)
LoopPrograms ==
    {<<While(TrueN, <<PassS>>, <<>>)>>,
     <<While(TrueN, <<ContinueS, Mark(1)>>, <<>>)>>,
     <<While(TrueN, <<ReturnS(Num(1))>>, <<>>), ReturnS(Num(2))>>,
     <<While(TrueN, <<Mark(1), Mark(2), Mark(3), Mark(4), Mark(5)>>, <<>>)>>,
     <<For(Name("i"), Name("it"), <<PassS>>, <<>>)>>,
     <<For(Name("i"), Name("it"), <<ContinueS>>, <<>>)>>,
     <<Assign(<<Name("x")>>, Comp(Name("c"), "c", Name("it")))>>,
     <<Assign(<<Name("x")>>, Comp(Comp(Name("c"), "c", L12), "a", L12)), ReturnS(Name("x"))>>,
     <<For(Name("i"), L12, <<Assign(<<Name("x")>>, Comp(Name("c"), "c", L123))>>, <<>>)>>,
     <<Assign(<<Name("x")>>,
              ListComp(Name("a"), <<Clause(Name("a"), L12, <<>>),
                                    Clause(Name("b"), L123, <<>>)>>))>>,
     <<Assign(<<Name("x")>>,
              ListComp(Name("a"), <<Clause(Name("a"), L123,
                                           <<Compare(Name("a"), <<"Lt">>, <<Num(3)>>),
                                             Compare(Name("a"), <<"Gt">>, <<Num(1)>>)>>)>>)),
       ReturnS(Name("x"))>>}
UnpackPrograms ==
    {<<Assign(<<AB>>, Name("it")), ReturnS(Name("a"))>>,
     <<Assign(<<AB>>, L12), ReturnS(Name("b"))>>,
     <<Assign(<<AB>>, L123)>>,
     <<Assign(<<AB>>, Num(1))>>,
     <<For(AB, ListN(<<L12>>), <<PassS>>, <<>>), ReturnS(Name("b"))>>,
     <<ReturnS(NoneNode)>>}
(* A fresh instance is given any of the programs, a used one the short ones. *)
ReusePrograms == LoopPrograms \cup UnpackPrograms
ExecPrograms  == NestedPrograms \cup ReusePrograms

Foo == Name("foo")
CallInputs ==
    {Expr(Call(Name("mark"), <<Num(1)>>)),
     Expr(Call(Name("unsafe"), <<Num(1)>>)),
     Expr(Call(Name("nofn"), <<>>)),
     Expr(Call(Attribute(Foo, a_run), <<Num(1)>>)),
     Expr(Call(Attribute(Name("d"), a_exec), <<>>)),
     Expr(Call(Attribute(Foo, a_class), <<>>)),
     Expr(Call(Name("mark"), <<Attribute(Foo, a_priv)>>)),
     Expr(Call(Attribute(Foo, a_bar), <<>>))}
AttributeInputs ==
    {Expr(Attribute(Foo, a)) :
        a \in {a_class, a_priv, a_funcg, a_format, a_bar, a_nope, a_te, a_ve}}
    \cup {Expr(Attribute(Name("d"), a)) : a \in {a_priv, a_bar, a_mro}}
    \cup {Expr(Attribute(Attribute(Foo, a_bar), a_class)), Expr(Attribute(Num(1), a_mro))}
NameInputs == {Expr(Name("a")), Expr(Name("zz")), Expr(Name("mark"))}
FStringInputs ==
    {Expr(JoinedStr(<<Constant(StrV(<<"a">>)), FormattedValue(Attribute(Foo, a_priv))>>)),
     Expr(JoinedStr(<<FormattedValue(Attribute(Foo, a_bar)), Constant(StrV(<<"b">>))>>)),
     Expr(JoinedStr(<<FormattedValue(Num(12345))>>)),
     Expr(JoinedStr([j \in 1..(MAX_STRING_LENGTH + 1) |->
                        FormattedValue(Attribute(Foo, a_bar))])),
     Expr(Constant(StrV(<<"a", "b", "c", "d", "e">>)))}
CompInputs ==
    {Expr(Comp(Attribute(Name("a"), a_class), "a", L12)),
     Expr(Comp(BinOp(Name("a"), "Add", Num(1)), "a", L123)),
     Expr(Comp(Name("y"), "x", L12)),
     Expr(Comp(Name("a"), "a", Num(1)))}
GenInputs ==
    {Expr(GeneratorExp(Name("a"), <<Clause(Name("a"), L12, <<>>)>>)),
     Expr(GeneratorExp(Name("b"), <<Clause(Name("b"), L12, <<>>)>>)),
     Expr(GeneratorExp(Name("zz"), <<Clause(Name("c"), L12, <<>>)>>))}
StatementInputs ==
    {ReturnS(Num(1)), BreakS, ContinueS, Assign(<<Name("x")>>, Num(4)),
     While(TrueN, <<BreakS>>, <<Mark(1)>>)}

Neg(n)  == UnaryOp("USub", Num(n))
Chr(c)  == Constant(StrV(<<c>>))
CallMark(n) == Call(Name("mark"), <<Num(n)>>)

(* Assignments: to several targets, to patterns, to items, augmented. *)
ABC  == TupleN(<<Name("a"), TupleN(<<Name("b"), Name("c")>>)>>)
M(k) == Subscript(Name("m"), k)
AssignInputs ==
    {Assign(<<Name("a"), Name("b")>>, CallMark(1)),
     Assign(<<ABC>>, ListN(<<Num(1), ListN(<<Num(2), Num(3)>>)>>)),
     Assign(<<ABC>>, ListN(<<Num(1), ListN(<<Num(2), Num(3), Num(4)>>)>>)),
     Assign(<<ABC>>, ListN(<<Num(1), Num(2)>>)),
     Assign(<<AB>>, Constant(StrV(<<"x", "y">>))),
     Assign(<<M(Num(2))>>, CallMark(3)),
     AugAssign(Name("x"), "Add", CallMark(2)),
     AugAssign(M(CallMark(1)), "Add", CallMark(5)),
     Assign(<<M(CallMark(1))>>, BinOp(M(CallMark(1)), "Add", CallMark(5))),
     AugAssign(Attribute(Foo, a_bar), "Add", Num(1)),
     Expr(M(Num(1))), Expr(M(Num(2)))}
(* Inputs of the form of an assignment, and a subscript, for the base evaluator. *)
AssignmentForms ==
    {Assign(<<M(Num(1))>>, CallMark(2)),
     Assign(<<Subscript(M(Num(1)), Num(0))>>, Num(2)),
     Assign(<<Attribute(Foo, a_bar)>>, Num(2)),
     AugAssign(Name("x"), "Add", Num(1)),
     Expr(M(Num(1))), Expr(Subscript(Name("l"), Neg(1))), Expr(Subscript(Name("l"), Num(2)))}
ResolverInputs == {Expr(Name("v")), Expr(Call(Name("int"), <<Num(1)>>))}
UnmappedInputs ==
    {Import, Expr(SetN(<<Num(22)>>)), Expr(Lambda(Num(1))), Assign(<<Name("x")>>, Num(4)),
     Expr(BinOp(Num(1), "Add", Lambda(Num(1))))}
OperatorInputs ==
    {Expr(BinOp(Num(1), "Add", Num(2))),
     Expr(BinOp(CallMark(1), "Sub", Num(2))),
     Expr(UnaryOp("Invert", CallMark(2))),
     Expr(UnaryOp("Not", Num(0))),
     Expr(BinOp(CallMark(1), "LShift", Num(2))),
     Expr(BinOp(Num(8), "RShift", CallMark(1)))}
PowerInputs ==
    {Expr(BinOp(Num(MAX_POWER), "Pow", Num(2))),
     Expr(BinOp(Num(2), "Pow", Num(MAX_POWER))),
     Expr(BinOp(Num(MAX_POWER + 1), "Pow", Num(1))),
     Expr(BinOp(Num(1), "Pow", Num(MAX_POWER + 1))),
     Expr(BinOp(Neg(MAX_POWER + 1), "Pow", Num(2))),
     Expr(BinOp(Num(2), "Pow", Neg(MAX_POWER + 1))),
     Expr(BinOp(Neg(2), "Pow", Neg(1)))}
MultInputs ==
    {Expr(BinOp(Num(MAX_STRING_LENGTH), "Mult", Chr("a"))),
     Expr(BinOp(Chr("a"), "Mult", Num(MAX_STRING_LENGTH))),
     Expr(BinOp(Num(MAX_STRING_LENGTH + 1), "Mult", Chr("a"))),
     Expr(BinOp(Chr("a"), "Mult", Num(MAX_STRING_LENGTH + 1))),
     Expr(BinOp(Name("l"), "Mult", Num(MAX_STRING_LENGTH \div 2))),
     Expr(BinOp(Num((MAX_STRING_LENGTH \div 2) + 1), "Mult", Name("l"))),
     Expr(BinOp(Name("l"), "Mult", Neg(1))),
     Expr(BinOp(Num(2), "Mult", Num(MAX_STRING_LENGTH))),
     Expr(BinOp(Chr("a"), "Mult", Chr("b")))}
CompareInputs ==
    {Expr(Compare(CallMark(1), <<"Lt", "Lt">>, <<CallMark(2), CallMark(3)>>)),
     Expr(Compare(CallMark(2), <<"Lt", "Lt">>, <<CallMark(1), CallMark(3)>>)),
     Expr(Compare(CallMark(1), <<"Lt", "Gt", "Lt">>, <<CallMark(2), CallMark(3), CallMark(4)>>)),
     Expr(Compare(CallMark(1), <<"Lt">>, <<CallMark(2)>>)),
     Expr(Compare(Name("p"), <<"Gt">>, <<Num(2)>>)),
     Expr(Compare(Num(1), <<"Lt", "Gt">>, <<Num(5), Name("p")>>)),
     Expr(Compare(Name("p"), <<"Gt", "Lt">>, <<Num(1), CallMark(2)>>)),
     Expr(Compare(Num(1), <<"Gt", "Gt">>, <<Num(5), Name("p")>>))}

EvalInputs(c) ==
    CASE c = "SimpleEval" -> CallInputs \cup AttributeInputs \cup NameInputs
                             \cup FStringInputs \cup ResolverInputs \cup UnmappedInputs
                             \cup OperatorInputs \cup PowerInputs \cup MultInputs
                             \cup CompareInputs \cup AssignmentForms
      [] c = "EvalWithCompoundTypes" -> CompInputs \cup GenInputs \cup NameInputs
      [] c = "ExecutorWithControl" -> StatementInputs \cup NameInputs \cup AssignInputs

---------------------------------------------------------------------------
(* Construction and the top-level calls. *)

(* What the host passes in.  The function table got a blocked function  *)
(* after construction (SimpleEval.__init__ rejects one passed to it).    *)
HostFunctions == ("mark" :> Fn("mark")) @@ ("unsafe" :> Fn("eval"))
HostNames     == ("foo" :> Obj("foo")) @@ ("d" :> Obj("d")) @@ ("it" :> Count)
                 @@ ("p" :> Obj("p")) @@ ("l" :> ListV(<<IntV(1), IntV(2)>>))
                 @@ ("m" :> Obj("m"))

(* An argument of SimpleEval.__init__: left at its default None, or passed. *)
Absent    == [passed |-> FALSE]
Passed(v) == [passed |-> TRUE, v |-> v]

(* The arguments the host constructs an instance with: its own functions  *)
(* and names, and then one argument at a time is something else.          *)
HostArgs == [operators |-> Absent,
             functions |-> Passed("mark" :> Fn("mark")),
             names |-> Passed(HostNames)]
Constructions(c) ==
    IF c = "EvalWithCompoundTypes" THEN {HostArgs}
    ELSE IF c = "ExecutorWithControl"
    THEN {HostArgs, [HostArgs EXCEPT !.names = Passed(Fn("name_handler"))]}
    ELSE {HostArgs,
          [HostArgs EXCEPT !.operators = Passed({})],
          [HostArgs EXCEPT !.operators = Passed({"Add"})],
          [HostArgs EXCEPT !.functions = Passed(Empty)],
          [HostArgs EXCEPT !.names = Passed(Fn("name_handler"))]}

(* SimpleEval.__init__, lines 278-287: the tables of the new instance. *)
__init__(args) ==
    [operators |-> IF ~args.operators.passed \/ args.operators.v = {}
                   THEN DEFAULT_OPERATORS ELSE args.operators.v,
     functions |-> IF ~args.functions.passed \/ DOMAIN args.functions.v = {}
                   THEN DEFAULT_FUNCTIONS ELSE args.functions.v,
     names     |-> args.names.v]

(* EvalWithCompoundTypes.__init__, lines 527-533, which the classes      *)
(* after it inherit: self.functions.update(list=..., ...).  The dict the  *)
(* host passed is the dict of the instance when it is not empty.          *)
CompoundFunctions == [f \in {"list", "tuple", "dict", "set"} |-> Fn(f)]
Construct(c, args) ==
    LET base == __init__(args)
        fns  == IF c = "SimpleEval" THEN base.functions
                ELSE CompoundFunctions @@ base.functions
    IN  [operators |-> base.operators, functions |-> fns, names |-> base.names,
         caller_functions |->
             IF ~args.functions.passed \/ DOMAIN args.functions.v = {}
             THEN Empty ELSE fns]

(* One instance runs; no other instance is in a call. *)
Nobody == [me |-> "alone"]

Init ==
    /\ cls \in Classes
    /\ given \in Constructions(cls)
    /\ operators = Construct(cls, given).operators
    /\ functions = IF given.functions = HostArgs.functions
                   THEN HostFunctions @@ Construct(cls, given).functions
                   ELSE Construct(cls, given).functions
    /\ caller_functions = Construct(cls, given).caller_functions
    /\ names = Construct(cls, given).names
    /\ simpleeval = Imported
    /\ twins = Nobody
    /\ nameHandler = 0
    /\ scopes = <<>>
    /\ items = HostDicts
    /\ num_stmts = 0
    /\ max_count = 0
    /\ stack = <<>>
    /\ ctl = IdleC
    /\ gens = <<>>
    /\ ran = <<>>
    /\ invoked = {}
    /\ reads = {}
    /\ evals = 0
    /\ handlers_run = 0
    /\ iters = 0
    /\ first_return = NoReturn
    /\ after_return = 0
    /\ calls = 0
    /\ entry = "none"
    /\ last_end = IdleC

(* A top-level call begins: the observations are those of this call. *)
NewCall(method) ==
    /\ ~Running
    /\ calls < MaxCalls
    /\ calls' = calls + 1
    /\ entry' = method
    /\ last_end' = IF entry = "next" THEN last_end ELSE ctl
    /\ evals' = 0 /\ handlers_run' = 0 /\ iters' = 0
    /\ first_return' = NoReturn /\ after_return' = 0
    /\ ran' = <<>> /\ invoked' = {} /\ reads' = {}
    /\ UNCHANGED <<tables, heap, gens>>

(* A variant: body[0] itself is evaluated. *)
SimpleEval_eval_statement(body) ==
    IF body = <<>> THEN Go(To(<<>>, ExcC(Exc("IndexError"))))
    ELSE Go(To(<<>>, EvalC(body[1])))

(* SimpleEval.eval, line 339: body[0].value of the parsed input is evaluated. *)
SimpleEval_eval(body) ==
    IF body = <<>> THEN Go(To(<<>>, ExcC(Exc("IndexError"))))
    ELSE IF "value" \in DOMAIN body[1] THEN Go(To(<<>>, EvalC(body[1].value)))
    ELSE Go(To(<<>>, ExcC(Exc("AttributeError"))))

(* EvalWithAssignments.eval, lines 665-666: body[0] of the parsed input is evaluated. *)
EvalWithAssignments_eval(body) ==
    IF body = <<>> THEN Go(To(<<>>, ExcC(Exc("IndexError"))))
    ELSE Go(To(<<>>, EvalC(body[1])))

(* EvalWithCompoundTypes.eval, then the eval of the next class. *)
EvalWithCompoundTypes_eval(body) ==
    /\ max_count' = 0
    /\ IF cls = "ExecutorWithControl" THEN EvalWithAssignments_eval(body)
       ELSE SimpleEval_eval(body)

(* SimpleExecutor.eval *)
SimpleExecutor_eval(body) ==
    /\ num_stmts' = 0
    /\ EvalWithCompoundTypes_eval(body)

(* SimpleExecutor.exec *)
SimpleExecutor_exec(body) ==
    /\ num_stmts' = 0
    /\ Go(StartExec(<<>>, body))

(* A variant: exec leaves self._max_count as the call before left it. *)
ExecutorWithControl_exec_keeps_count(body) ==
    /\ max_count' = max_count
    /\ SimpleExecutor_exec(body)

(* ExecutorWithControl.exec *)
ExecutorWithControl_exec(body) ==
    /\ max_count' = 0
    /\ SimpleExecutor_exec(body)

(* The instance's eval(body) or exec(body), by the class of the instance. *)
call(method, body) ==
    /\ NewCall(method)
    /\ IF method = "exec"
       THEN cls = "ExecutorWithControl" /\ ExecutorWithControl_exec(body)
       ELSE CASE cls = "SimpleEval" -> SimpleEval_eval(body) /\ UNCHANGED counts
              [] cls = "EvalWithCompoundTypes" ->
                    EvalWithCompoundTypes_eval(body) /\ UNCHANGED num_stmts
              [] cls = "ExecutorWithControl" -> SimpleExecutor_eval(body)

(* The host calls eval with an input of one statement, or with the empty string. *)
eval ==
    \E body \in {<<e>> : e \in EvalInputs(cls) \ (IF calls = 0 THEN {} ELSE AssignInputs \cup AssignmentForms)}
                 \cup {<<>>} :
       /\ twins = Nobody
       /\ \A j \in 1..Len(body) :
             body[j].kind = "Expr" /\ body[j].value.kind = "GeneratorExp"
             => Len(gens) < MaxGens
       /\ call("eval", body)
       /\ UNCHANGED twins

(* The settings of the module's globals the host goes through: one global *)
(* at a time is rebound, and bound back before another one is.            *)
LoweredPower == MAX_POWER - 2
Settings ==
    {Imported,
     [Imported EXCEPT !.MAX_POWER = LoweredPower],
     [Imported EXCEPT !.DISALLOW_PREFIXES = @ \cup {<<"b", "a">>}],
     [Imported EXCEPT !.DISALLOW_FUNCTIONS = @ \cup {Fn("mark")}]}

(* The host rebinds a global of the module between two calls on a base    *)
(* evaluator it made with its own tables (simpleeval.MAX_POWER = 100,     *)
(* and back).                                                             *)
host_setattr ==
    /\ cls = "SimpleEval" /\ given = HostArgs /\ ~Running /\ twins = Nobody
    /\ \E g \in Settings \ {simpleeval} :
          /\ simpleeval = Imported \/ g = Imported
          /\ simpleeval' = g
    /\ UNCHANGED <<cls, functions, operators, given, caller_functions, twins, heap, counts, machine, gens,
                   hostlog, meter, calls, entry, last_end>>

exec ==
    \E body \in IF calls = 0 THEN ExecPrograms ELSE ReusePrograms :
       /\ twins = Nobody
       /\ call("exec", body)
       /\ UNCHANGED twins

(* One step of the call that is running. *)
Step ==
    \/ _eval_raise \/ Unwind \/ _exec
    \/ _eval_constant \/ _eval_joinedstr \/ _eval_formattedvalue \/ _eval_name_node
    \/ _eval_unaryop \/ _eval_binop \/ _eval_compare
    \/ _eval_call \/ _eval_attribute \/ _eval_list
    \/ _eval_listcomp \/ _eval_generatorexp \/ _do_comprehension
    \/ _eval_subscript
    \/ _eval_expr \/ _eval_assign \/ _eval_augassign
    \/ _assign_name \/ _assign_subscript \/ _assign_unpack \/ _FinalValue
    \/ list_iter_unbounded
    \/ _exec_return \/ _exec_break \/ _exec_continue \/ _exec_pass
    \/ _exec_if \/ _exec_for \/ _exec_while
    \/ next_return

Next == eval \/ exec \/ host_setattr \/ host_next \/ host_close \/ Step

Spec == Init /\ [][Next]_vars

---------------------------------------------------------------------------
(* Two instances.  What __init__ and the calls keep on self (the tables,  *)
(* names, self.nodes, the counters), what a call keeps on the stack of    *)
(* its thread, and what the host keeps for each instance (its dicts, the  *)
(* generators it was given, what it saw), as one record; the globals of   *)
(* the module are the same for every instance.                            *)
Instance ==
    [cls |-> cls, functions |-> functions, operators |-> operators, given |-> given,
     caller_functions |-> caller_functions,
     names |-> names, nameHandler |-> nameHandler, scopes |-> scopes, items |-> items,
     num_stmts |-> num_stmts, max_count |-> max_count,
     stack |-> stack, ctl |-> ctl, gens |-> gens,
     ran |-> ran, invoked |-> invoked, reads |-> reads,
     evals |-> evals, handlers_run |-> handlers_run, iters |-> iters,
     first_return |-> first_return, after_return |-> after_return,
     calls |-> calls, entry |-> entry, last_end |-> last_end]

(* A variant: _max_count is an attribute of the class, one for all instances. *)
Resumed_one_count(r) ==
    /\ cls' = r.cls /\ functions' = r.functions /\ operators' = r.operators
    /\ given' = r.given /\ caller_functions' = r.caller_functions
    /\ names' = r.names /\ nameHandler' = r.nameHandler /\ scopes' = r.scopes
    /\ items' = r.items
    /\ num_stmts' = r.num_stmts /\ max_count' = max_count
    /\ stack' = r.stack /\ ctl' = r.ctl /\ gens' = r.gens
    /\ ran' = r.ran /\ invoked' = r.invoked /\ reads' = r.reads
    /\ evals' = r.evals /\ handlers_run' = r.handlers_run /\ iters' = r.iters
    /\ first_return' = r.first_return /\ after_return' = r.after_return
    /\ calls' = r.calls /\ entry' = r.entry /\ last_end' = r.last_end

(* The thread of the instance r goes on: self is r. *)
Resumed(r) ==
    /\ cls' = r.cls /\ functions' = r.functions /\ operators' = r.operators
    /\ given' = r.given /\ caller_functions' = r.caller_functions
    /\ names' = r.names /\ nameHandler' = r.nameHandler /\ scopes' = r.scopes
    /\ items' = r.items
    /\ num_stmts' = r.num_stmts /\ max_count' = r.max_count
    /\ stack' = r.stack /\ ctl' = r.ctl /\ gens' = r.gens
    /\ ran' = r.ran /\ invoked' = r.invoked /\ reads' = r.reads
    /\ evals' = r.evals /\ handlers_run' = r.handlers_run /\ iters' = r.iters
    /\ first_return' = r.first_return /\ after_return' = r.after_return
    /\ calls' = r.calls /\ entry' = r.entry /\ last_end' = r.last_end

(* The calls the two instances make. *)
TwinInputs(c) ==
    CASE c = "SimpleEval" ->
            {[method |-> "eval", body |-> <<e>>] :
                e \in {Expr(CallMark(1)), Expr(Name("zz")),
                       Expr(Compare(CallMark(1), <<"Lt", "Lt">>, <<CallMark(2), CallMark(3)>>))}}
      [] c = "EvalWithCompoundTypes" ->
            {[method |-> "eval", body |-> <<e>>] :
                e \in {Expr(Comp(Attribute(Name("a"), a_class), "a", L12)),
                       Expr(Comp(BinOp(Name("a"), "Add", Num(1)), "a", L123))}}
      [] c = "ExecutorWithControl" ->
            {[method |-> "exec", body |-> b] :
                b \in {<<For(Name("i"), L12, <<PassS>>, <<>>), ReturnS(Name("i"))>>,
                       <<Assign(<<Name("x")>>, Comp(Name("c"), "c", L12)),
                         ReturnS(Name("x"))>>}}

Finished(r) == r.stack = <<>> /\ r.ctl.m \in {"ret", "exc"}
Waiting     == twins.waiting
Slots       == DOMAIN twins.waiting
(* The instances that wait, when the one that runs lets to run. *)
Parked(to)  == (twins.me :> Instance) @@ [x \in Slots \ {to} |-> Waiting[x]]

(* The host makes a second instance as it made the first, and the first   *)
(* instance begins a call.  A copy of the call as it begins is kept: it   *)
(* is run later, by itself.                                               *)
twin_call ==
    /\ twins = Nobody /\ calls = 0 /\ given = HostArgs
    /\ \E c \in TwinInputs(cls) :
          /\ call(c.method, c.body)
          /\ twins' = [me |-> "a", mixed |-> FALSE,
                       waiting |-> ("b" :> Instance) @@ ("ra" :> Instance')]

(* The second instance begins its call. *)
twin_begin ==
    /\ twins.me = "b" /\ calls = 0
    /\ \E c \in TwinInputs(cls) :
          /\ call(c.method, c.body)
          /\ twins' = [twins EXCEPT !.waiting = ("rb" :> Instance') @@ @]

(* The thread of the other instance is scheduled, between two steps of   *)
(* the one that runs.                                                     *)
switch ==
    /\ twins.me \in {"a", "b"}
    /\ LET to == IF twins.me = "a" THEN "b" ELSE "a" IN
       /\ ~Finished(Waiting[to])
       /\ Resumed(Waiting[to])
       /\ twins' = [me |-> to,
                    mixed |-> twins.mixed \/ (Running /\ Waiting[to].stack # <<>>),
                    waiting |-> Parked(to)]
    /\ UNCHANGED simpleeval

(* Both calls have ended: the copies kept of them are run, one by one. *)
run_alone ==
    /\ twins.me \in {"a", "b", "ra"} /\ Done
    /\ LET to == IF twins.me = "ra" THEN "rb" ELSE "ra" IN
       /\ to \in Slots
       /\ \A x \in {"a", "b"} \ {twins.me} : x \in Slots /\ Finished(Waiting[x])
       /\ Resumed(Waiting[to])
       /\ twins' = [twins EXCEPT !.me = to, !.waiting = Parked(to)]
    /\ UNCHANGED simpleeval

TwinNext == Next \/ twin_call \/ twin_begin \/ switch \/ run_alone

TwinSpec == Init /\ [][TwinNext]_vars

(* The interpreter runs a call to its end: nothing else is scheduled. *)
FairSpec == Spec /\ WF_vars(Step)

---------------------------------------------------------------------------
(* The properties.  The words of the specification are stated here in    *)
(* terms of what a host can observe of a call: the functions it saw      *)
(* called, the attributes it saw read, how many handlers ran, how the    *)
(* call ended.                                                            *)

InCall    == entry \in {"eval", "exec"}
Signals   == {"_Return", "_Break", "_Continue"}
Frames(k) == {i \in 1..Len(stack) : stack[i].k = k}

(* C1: in exec, an executed return statement ends the whole call at once, *)
(* from any depth of if/for/while nesting: no statement handler starts    *)
(* after it, and the call returns the value of that return statement.     *)
ReturnEndsExec ==
    (entry = "exec" /\ first_return # NoReturn) =>
        /\ after_return = 0
        /\ Done => ctl = RetC(first_return.val)

(* C2: a function object that is on the blocked list is never invoked,    *)
(* whatever the form of the callee expression that produced it.           *)
BlockedNeverInvoked == \A f \in invoked : Fn(f) \notin DISALLOW_FUNCTIONS

(* C9: a top-level eval or exec call ends by returning a value or raising *)
(* an exception the host can catch with except Exception: the return,     *)
(* break and continue signals never reach the caller.                     *)
NoSignalEscapes ==
    (InCall /\ Done /\ ctl.m = "exc") => ctl.exc.k \notin Signals

(* The attribute names the specification blocks: those that begin with _  *)
(* or func_, and format, format_map, mro.                                 *)
BlockedAttr(attr) ==
    \/ attr # <<>> /\ attr[1] = "_"
    \/ Len(attr) >= 5 /\ SubSeq(attr, 1, 5) = <<"f", "u", "n", "c", "_">>
    \/ attr \in {<<"f", "o", "r", "m", "a", "t">>,
                 <<"f", "o", "r", "m", "a", "t", "_", "m", "a", "p">>,
                 <<"m", "r", "o">>}
BudgetSpent == IsExecutor /\ num_stmts >= MAX_NUM_STATEMENTS

(* C3: evaluating an attribute-access node whose attribute name is blocked *)
(* raises FeatureNotAvailable and nothing else happens: the base is not    *)
(* evaluated and the attribute is never read from any value, at whatever   *)
(* position of the tree the node stands (an executor whose statement       *)
(* budget is spent raises TooManyStatements first).                        *)
BlockedAttrNeverRead ==
    /\ [](\A attr \in reads : ~BlockedAttr(attr))
    /\ [][(ctl.m = "eval" /\ ctl.node.kind = "Attribute" /\ BlockedAttr(ctl.node.attr)
           /\ ~BudgetSpent)
          => /\ ctl' = ExcC(Exc("FeatureNotAvailable"))
             /\ stack' = stack
             /\ reads' = reads /\ invoked' = invoked]_vars

(* A blocked attribute in the place of a call's target has just been      *)
(* refused, nothing having been read.                                     *)
BlockedAttrRefused ==
    /\ ctl = ExcC(Exc("FeatureNotAvailable"))
    /\ stack # <<>> /\ Top.k = "Call" /\ Top.pc = "func"
    /\ Top.node.func.kind = "Attribute" /\ BlockedAttr(Top.node.func.attr)
    /\ reads = {}

(* A comprehension is at work: on the stack, or as a suspended generator. *)
ComprehensionLive ==
    \/ Frames("_do_comprehension") # {}
    \/ \E g \in 1..Len(gens) : gens[g].state \in {"suspended", "running"}

(* C4: once every comprehension that began has ended (exhausted, failed,  *)
(* or closed by its consumer), the name handler of the dispatch table is  *)
(* the one installed before the first of them began.                      *)
ScopeRemoved == ~ComprehensionLive => nameHandler = 0

(* C5: in a call of an executor every node evaluation adds one to the     *)
(* statement counter before the handler runs, the counter never goes down *)
(* during the call, the evaluation that takes it past MAX_NUM_STATEMENTS  *)
(* raises TooManyStatements without running a handler, and so at most     *)
(* MAX_NUM_STATEMENTS handlers run in a call.                             *)
StatementBudget ==
    /\ [](IsExecutor => handlers_run <= MAX_NUM_STATEMENTS)
    /\ [][(IsExecutor /\ calls' = calls) =>
            /\ num_stmts' >= num_stmts
            /\ ctl.m = "eval" => num_stmts' = num_stmts + 1
            /\ handlers_run' # handlers_run =>
                  /\ ctl.m = "eval" /\ handlers_run' = handlers_run + 1
                  /\ num_stmts' <= MAX_NUM_STATEMENTS
            /\ (ctl.m = "eval" /\ num_stmts' > MAX_NUM_STATEMENTS) =>
                  /\ ctl' = ExcC(Exc("TooManyStatements"))
                  /\ handlers_run' = handlers_run
                  /\ stack' = stack /\ names' = names /\ ran' = ran]_vars

(* A call has spent its whole statement budget and was stopped.          *)
StatementBudgetSpent ==
    /\ Raised("TooManyStatements")
    /\ handlers_run = MAX_NUM_STATEMENTS /\ num_stmts = MAX_NUM_STATEMENTS + 1

(* C6: in a call, the iterations of for loops and while loops and the     *)
(* items drawn by comprehension clauses are counted by one counter; the   *)
(* one that takes the count past MAX_COMPREHENSION_LENGTH raises          *)
(* IterableTooLong with nothing bound, no body started and no value       *)
(* emitted, and nesting gives no fresh ceiling: no call draws more than   *)
(* MAX_COMPREHENSION_LENGTH + 1 items in all.                             *)
IterationBudget ==
    /\ [](InCall => /\ iters <= MAX_COMPREHENSION_LENGTH + 1
                    /\ iters > MAX_COMPREHENSION_LENGTH => ctl = ExcC(Exc("IterableTooLong")))
    /\ [][(InCall /\ iters' = iters + 1) =>
            /\ max_count' = max_count + 1
            /\ max_count' > MAX_COMPREHENSION_LENGTH =>
                  /\ ctl' = ExcC(Exc("IterableTooLong"))
                  /\ Len(stack') = Len(stack)
                  /\ names' = names /\ scopes' = scopes /\ ran' = ran]_vars

(* A comprehension inside a for loop drew the item that is one too many.  *)
NestedIterationsSpent ==
    /\ ctl = ExcC(Exc("IterableTooLong"))
    /\ iters = MAX_COMPREHENSION_LENGTH + 1
    /\ Frames("_do_comprehension") # {} /\ Frames("For") # {}

(* C7: every top-level call on a used instance starts with the statement  *)
(* counter and the iteration counter at zero, however the call before it  *)
(* ended, so that during a call the counters are the numbers of           *)
(* evaluations and of iterations of this call alone.                      *)
FreshBudgetPerCall ==
    /\ [][calls' = calls + 1 =>
            /\ IsExecutor => num_stmts' = 0
            /\ cls # "SimpleEval" => max_count' = 0]_vars
    /\ [](InCall => /\ IsExecutor => num_stmts = evals
                    /\ cls # "SimpleEval" => max_count = iters)

(* A call that looped has returned, on an instance whose call before      *)
(* was stopped by the statement ceiling.                                  *)
ReusedAfterTooMany ==
    /\ calls = 2 /\ last_end = ExcC(Exc("TooManyStatements"))
    /\ InCall /\ Done /\ ctl.m = "ret"
    /\ iters > 0 /\ evals > iters

(* C8: every exec call eventually returns or raises.                      *)
ExecTerminates == (entry = "exec" /\ Running) ~> ~Running

LoopTop   == stack # <<>> /\ Top.k \in {"For", "While"}
InBody    == LoopTop /\ Top.pc = "body"
Signal(k) == ctl.m = "exc" /\ ctl.exc.k = k
(* The frame of the loop on top, as the step leaves it. *)
LoopAfter == stack'[Len(stack)]
ElseStarted ==
    /\ Len(stack') >= Len(stack) /\ LoopAfter = [Top EXCEPT !.pc = "orelse"]
    /\ ctl' = StartExec(stack, Top.node.orelse).ctl

(* C10: a break reaching a loop from its body ends the loop at once, the  *)
(* else-block not run; a continue goes on with the next iteration (the    *)
(* test again, for while); the else-block is entered only when the        *)
(* iterable is exhausted or the test is falsy, and the loop is over when  *)
(* it returns; a break or continue passes unchanged through every frame   *)
(* that is not a loop body and stops at the innermost loop.               *)
LoopControl ==
    [][/\ (InBody /\ Signal("_Break")) =>
             stack' = Pop(stack) /\ ctl' = RetC(None) /\ ran' = ran /\ names' = names
       /\ (InBody /\ Signal("_Continue") /\ Top.k = "While") =>
             stack' = SetTop(stack, [Top EXCEPT !.pc = "test"]) /\ ctl' = EvalC(Top.node.test)
       /\ (InBody /\ Signal("_Continue") /\ Top.k = "For") =>
             IF HasNext(Top.it, Top.idx)
             THEN \/ ctl' = ExcC(Exc("IterableTooLong")) /\ max_count' > MAX_COMPREHENSION_LENGTH
                  \/ /\ Len(stack') = Len(stack) + 1
                     /\ LoopAfter = [Top EXCEPT !.pc = "bind", !.idx = @ + 1]
                     /\ ctl' = EvalC(FinalValue(Item(Top.it, Top.idx + 1)))
             ELSE ElseStarted
       /\ (stack # <<>> /\ ~InBody /\ (Signal("_Break") \/ Signal("_Continue"))) =>
             stack' = Pop(stack) /\ ctl' = ctl
       /\ (LoopTop /\ Top.pc # "orelse" /\ Len(stack') >= Len(stack)
           /\ LoopAfter.k = Top.k /\ LoopAfter.pc = "orelse") =>
             /\ ElseStarted \/ (Top.pc = "iter" /\ ctl' = StartExec(stack, Top.node.orelse).ctl)
             /\ Top.k = "While" => Top.pc = "test" /\ ctl.m = "ret" /\ ~Truthy(ctl.val)
             /\ Top.k = "For" =>
                  ~HasNext(IF Top.pc = "iter" THEN ctl.val ELSE Top.it, Top.idx)
       /\ (LoopTop /\ Top.pc = "orelse" /\ ctl.m = "ret") =>
             stack' = Pop(stack) /\ ctl' = RetC(None)]_vars

(* A break raised inside an if inside the body of a loop is on its way    *)
(* to the loop.                                                           *)
BreakInNestedIf ==
    /\ Signal("_Break") /\ Len(stack) >= 4
    /\ Top.k = "_exec" /\ stack[Len(stack) - 1].k = "If"
    /\ stack[Len(stack) - 2].k = "_exec"
    /\ stack[Len(stack) - 3].k \in {"For", "While"} /\ stack[Len(stack) - 3].pc = "body"

---------------------------------------------------------------------------
(* Names, dispatch, operator tables and the blocked sets. *)

(* A node is given to self._eval, which finds a handler for it, on an     *)
(* instance whose statement budget is not spent.                          *)
Dispatched(kind) ==
    ctl.m = "eval" /\ ctl.node.kind = kind /\ kind \in nodes(cls) /\ ~BudgetSpent

(* C11: when self.names is a callable, evaluating a name returns what the *)
(* callable returns for it, and an error the callable raises, a KeyError  *)
(* too, is the error of the evaluation: self.functions is not looked at   *)
(* and NameNotDefined does not take the error's place.                    *)
ResolverVerbatim ==
    [][(Dispatched("Name") /\ callable(names) /\ nameHandler = 0)
          => ctl' = name_handler(ctl.node.id) /\ stack' = stack]_vars

(* C12: a node whose kind has no handler in self.nodes fails the call     *)
(* with FeatureNotAvailable and with nothing else; that holds for the     *)
(* statement the input consists of as well, and an empty input fails      *)
(* with InvalidExpression: a call of eval starts by dispatching a node or *)
(* ends at once with one of these two errors.                             *)
UnmappedIsFeatureNotAvailable ==
    [][/\ (calls' = calls + 1 /\ entry' = "eval")
             => \/ ctl'.m = "eval"
                \/ ctl'.m = "exc" /\ ctl'.exc.k \in {"FeatureNotAvailable", "InvalidExpression"}
       /\ (ctl.m = "eval" /\ ctl.node.kind \notin nodes(cls) /\ ~BudgetSpent)
             => ctl' = ExcC(Exc("FeatureNotAvailable")) /\ stack' = stack]_vars

(* C13: a unary, binary or comparison operator whose kind is not in       *)
(* self.operators raises OperatorNotDefined, and no operator is applied.  *)
MissingOperatorNotDefined ==
    [][/\ ((Dispatched("UnaryOp") \/ Dispatched("BinOp")) /\ ctl.node.op \notin operators)
             => ctl' = ExcC(Exc("OperatorNotDefined")) /\ stack' = stack
       /\ (stack # <<>> /\ Top.k = "Compare" /\ Top.i > 0 /\ ctl.m = "ret"
           /\ Top.node.ops[Top.i] \notin operators)
             => ctl' = ExcC(Exc("OperatorNotDefined")) /\ stack' = Pop(stack)]_vars

(* C14: a table passed to the constructor is the table of the instance,   *)
(* an empty one too: with an empty function table every call of a name    *)
(* raises FunctionNotDefined, with an empty operator table no operator    *)
(* is found.                                                              *)
PassedTableReplacesDefault ==
    /\ [](given.operators.passed => operators = given.operators.v)
    /\ []((given.functions.passed /\ DOMAIN given.functions.v = {}) => DOMAIN functions = {})
    /\ [][(Dispatched("Call") /\ ctl.node.func.kind = "Name"
           /\ given.functions.passed /\ DOMAIN given.functions.v = {})
             => ctl' = ExcC(Exc("FunctionNotDefined"))]_vars

(* C15: the blocked sets an instance checks are those of its              *)
(* construction: whatever the module's sets are rebound to afterwards,    *)
(* the instance refuses an attribute exactly when its name was blocked    *)
(* when the instance was made, and a function of its table exactly when   *)
(* the function was blocked then.                                         *)
InstanceKeepsBlockedSets ==
    [][/\ Dispatched("Attribute")
             => ((ctl' = ExcC(Exc("FeatureNotAvailable")) /\ stack' = stack)
                 <=> BlockedAttr(ctl.node.attr))
       /\ (Dispatched("Call") /\ ctl.node.func.kind = "Name"
           /\ ctl.node.func.id \in DOMAIN functions)
             => (ctl' = ExcC(Exc("FeatureNotAvailable"))
                 <=> functions[ctl.node.func.id] \in DISALLOW_FUNCTIONS)]_vars

---------------------------------------------------------------------------
(* The guards of the operators, and chained comparisons. *)

(* The operator of a binary node is about to be applied to two values. *)
Applying(op) ==
    /\ stack # <<>> /\ Top.k = "BinOp" /\ Top.pc = "right" /\ Top.node.op = op
    /\ ctl.m = "ret"

(* C16: a ** b of two integers raises NumberTooHigh exactly when |a| or   *)
(* |b| is greater than the value MAX_POWER of the module has when the     *)
(* power is evaluated, and is Python's a ** b otherwise (an integer for   *)
(* b >= 0, the float 1 / a ** -b for b < 0); so rebinding MAX_POWER to a  *)
(* lower value makes an instance that exists refuse operands it took      *)
(* before, and binding it back makes it take them again.                  *)
PowerCeiling ==
    [][(Applying("Pow") /\ Top.left.t = "int" /\ ctl.val.t = "int") =>
          LET a == Top.left.n
              b == ctl.val.n
              m == simpleeval.MAX_POWER
          IN  /\ stack' = Pop(stack)
              /\ IF a > m \/ -a > m \/ b > m \/ -b > m
                 THEN ctl' = ExcC(Exc("NumberTooHigh"))
                 ELSE IF b >= 0 THEN ctl' = RetC(IntV(a ^ b))
                 ELSE IF a = 0 THEN ctl' = ExcC(Exc("ZeroDivisionError"))
                 ELSE /\ ctl'.m = "ret" /\ ctl'.val.t = "float"
                      /\ ctl'.val.num * (a ^ (-b)) = ctl'.val.den]_vars

(* MAX_POWER ** 2 was computed by the call before; MAX_POWER has been    *)
(* rebound to the lower value since, and the same power is at its guard   *)
(* on the same instance.                                                  *)
LoweredCeilingRefuses ==
    /\ Applying("Pow") /\ Top.left = IntV(MAX_POWER) /\ ctl.val = IntV(2)
    /\ calls = 2 /\ simpleeval.MAX_POWER = LoweredPower
    /\ last_end = RetC(IntV(MAX_POWER * MAX_POWER))

(* n copies of the sequence s one after the other. *)
Times(s, n) == [j \in 1..(n * Len(s)) |-> s[((j - 1) % Len(s)) + 1]]

(* C17: the product of an integer n and a sized value s, in either order, *)
(* raises IterableTooLong exactly when n * len(s) is greater than         *)
(* MAX_STRING_LENGTH; a product of exactly that length is made, and what  *)
(* is made is s repeated n times.                                         *)
MultLength ==
    [][(Applying("Mult") /\ {Top.left.t, ctl.val.t} \in {{"int", "str"}, {"int", "list"}}) =>
          LET n == IF Top.left.t = "int" THEN Top.left.n ELSE ctl.val.n
              v == IF Top.left.t = "int" THEN ctl.val ELSE Top.left
              s == IF v.t = "str" THEN v.s ELSE v.items
          IN  /\ stack' = Pop(stack)
              /\ IF n * Len(s) > MAX_STRING_LENGTH
                 THEN ctl' = ExcC(Exc("IterableTooLong"))
                 ELSE /\ ctl'.m = "ret" /\ ctl'.val.t = v.t
                      /\ (IF v.t = "str" THEN ctl'.val.s ELSE ctl'.val.items)
                            = IF n <= 0 THEN <<>> ELSE Times(s, n)]_vars

(* A string of exactly MAX_STRING_LENGTH characters has been made by a    *)
(* multiplication.                                                        *)
ProductAtThreshold ==
    /\ Done /\ cls = "SimpleEval"
    /\ ctl = RetC(StrV([j \in 1..MAX_STRING_LENGTH |-> "a"]))

(* C18: a left or right shift is an operator of the default table: its    *)
(* operands are evaluated and it raises NumberTooHigh or returns the      *)
(* shifted integer.                                                       *)
ShiftCeilings ==
    [][(Dispatched("BinOp") /\ ctl.node.op \in {"LShift", "RShift"}
        /\ ~given.operators.passed)
          => ctl' = EvalC(ctl.node.left)]_vars

(* The operands of a comparison, and one whose operands all are mark(n). *)
Operands(node) == <<node.left>> \o node.comparators
IsMark(n) ==
    /\ n.kind = "Call" /\ n.func = Name("mark")
    /\ Len(n.args) = 1 /\ n.args[1].kind = "Constant"
OfMarks(node) == \A j \in 1..Len(Operands(node)) : IsMark(Operands(node)[j])
Holds(o, a, b) == (o = "Lt" /\ a.n < b.n) \/ (o = "Gt" /\ a.n > b.n)

(* C19: in a chained comparison the leftmost operand is evaluated first   *)
(* and once, then the comparators from left to right, each at most once;  *)
(* a comparator is evaluated only when every relation before it held, so  *)
(* nothing of an operand after the first relation that fails happens;     *)
(* the value of a middle operand, evaluated once, is the right side of    *)
(* one relation and the left side of the next.                            *)
ChainOrder ==
    /\ []((stack # <<>> /\ stack[1].k = "Compare" /\ OfMarks(stack[1].node)) =>
            LET node == stack[1].node IN
            /\ Len(ran) <= Len(Operands(node))
            /\ \A j \in 1..Len(ran) : ran[j] = Operands(node)[j].args[1].value
            /\ \A j \in 1..(Len(ran) - 2) : Holds(node.ops[j], ran[j], ran[j + 1]))
    /\ [][(stack # <<>> /\ Top.k = "Compare" /\ ctl.m = "ret") =>
            IF Len(stack') >= Len(stack)
            THEN /\ stack'[Len(stack)] = [Top EXCEPT !.i = @ + 1, !.right = ctl.val,
                                                      !.to_return = stack'[Len(stack)].to_return]
                 /\ ctl' = EvalC(Top.node.comparators[Top.i + 1])
            ELSE ran' = ran]_vars

(* mark(2) < mark(1) < mark(3) has ended: mark(3) was not called. *)
ShortCircuited ==
    /\ Done /\ ctl = RetC(BoolV(FALSE))
    /\ ran = <<IntV(2), IntV(1)>>

(* A relation of a comparison is about to be worked out. *)
Relating ==
    /\ stack # <<>> /\ Top.k = "Compare" /\ Top.i > 0 /\ ctl.m = "ret"
    /\ Top.node.ops[Top.i] \in operators
Related == Operate(Top.node.ops[Top.i], Top.right, ctl.val)

(* C20, as it is worded: the result of a comparison of two or more        *)
(* relations is a bool whatever the operator functions return; the        *)
(* result of a comparison of one relation is what the operator function   *)
(* returned.                                                              *)
ChainedIsBoolean ==
    [][(Relating /\ Related.m = "ret" /\ stack' = Pop(stack) /\ ctl'.m = "ret") =>
          IF Len(Top.node.ops) >= 2 THEN ctl'.val.t = "bool" ELSE ctl' = Related]_vars

(* C20, as the code has it: the result of a comparison, chained or not,   *)
(* is what the operator function returned for the last relation worked    *)
(* out, not converted; the result of a relation that is not the last of   *)
(* the chain is tested for truth, which raises when it cannot be tested,  *)
(* ends the comparison when it is false and goes on to the next           *)
(* comparator otherwise; the result of the last relation, so that of a    *)
(* comparison of one relation, is never tested.                           *)
LastRelationUnconverted ==
    [][(Relating /\ Related.m = "ret") =>
          IF Top.i = Len(Top.node.ops) THEN stack' = Pop(stack) /\ ctl' = Related
          ELSE IF Related.val.t = "proxy"
          THEN stack' = Pop(stack) /\ ctl' = ExcC(Exc("TypeError"))
          ELSE IF Related.val = BoolV(FALSE) THEN stack' = Pop(stack) /\ ctl' = Related
          ELSE ctl' = EvalC(Top.node.comparators[Top.i + 1])]_vars

(* 1 < 5 > p has returned the proxy the reflected comparison of p made. *)
ChainReturnedProxy ==
    /\ Done /\ ctl = RetC(Proxy("Lt"))

---------------------------------------------------------------------------
(* Attribute lookup, assignment, f-strings, construction and instances.   *)

(* The call read attribute a of the host's foo and ended with e. *)
ReadEnded(a, e) ==
    /\ entry = "eval" /\ Done /\ a \in reads
    /\ ctl = ExcC(Exc(e))

(* C21: an attribute that is not blocked is looked up natively, then, if  *)
(* that lookup finds nothing and the index fallback is on, by indexing;   *)
(* AttributeDoesNotExist is raised only when both find nothing, and any   *)
(* other error the host's value raises in a lookup reaches the caller     *)
(* unchanged: a call that reads the property of foo whose getter raises   *)
(* TypeError does not end with AttributeDoesNotExist.                     *)
HostErrorUnchanged == ~ReadEnded(a_te, "AttributeDoesNotExist")

(* The statement whose frame is on top has ended, with a value or an error. *)
Ended(kind) == stack # <<>> /\ Top.k = kind /\ ctl.m \in {"ret", "exc"}
Mapping     == "t" \notin DOMAIN names

(* C22: when names is not a mutable mapping, every form of assignment     *)
(* raises InvalidExpression before the value or the target is evaluated,  *)
(* and binds nothing: the step that dispatches an assignment statement    *)
(* of such an instance ends it with InvalidExpression, no host function   *)
(* called.                                                                 *)
AssignNeedsMapping ==
    [][(/\ ctl.m = "eval" /\ ctl.node.kind \in {"Assign", "AugAssign"}
        /\ IsExecutor /\ num_stmts < MAX_NUM_STATEMENTS
        /\ ~Mapping)
       => /\ ctl' = ExcC(Exc("InvalidExpression"))
          /\ ran' = ran /\ names' = names /\ items' = items]_vars

(* The value a literal denotes, the shape of a value against a pattern    *)
(* of names, and the bindings a pattern makes of a value.                 *)
RECURSIVE IsLiteral(_)
IsLiteral(n) ==
    \/ n.kind = "Constant"
    \/ n.kind \in {"List", "Tuple"} /\ \A j \in 1..Len(n.elts) : IsLiteral(n.elts[j])
RECURSIVE Literal(_)
Literal(n) ==
    CASE n.kind = "Constant" -> n.value
      [] n.kind = "List" -> ListV([j \in 1..Len(n.elts) |-> Literal(n.elts[j])])
      [] n.kind = "Tuple" -> TupleV([j \in 1..Len(n.elts) |-> Literal(n.elts[j])])
IsPattern(t) == t.kind \in {"Tuple", "List"}
Elements(v) ==
    CASE v.t \in {"list", "tuple"} -> v.items
      [] v.t = "str" -> [j \in 1..Len(v.s) |-> StrV(<<v.s[j]>>)]
      [] OTHER -> <<>>
RECURSIVE Shaped(_, _)
Shaped(t, v) ==
    IsPattern(t) =>
        /\ v.t \in {"list", "tuple", "str"}
        /\ Len(Elements(v)) = Len(t.elts)
        /\ \A j \in 1..Len(t.elts) : Shaped(t.elts[j], Elements(v)[j])
RECURSIVE Binds(_, _)
Binds(t, v) ==
    IF IsPattern(t) THEN \A j \in 1..Len(t.elts) : Binds(t.elts[j], Elements(v)[j])
    ELSE t.id \in DOMAIN names /\ names[t.id] = v

(* An assignment of a literal to one pattern has ended. *)
Destructured ==
    /\ Ended("Assign") /\ Mapping
    /\ Len(Top.node.targets) = 1 /\ IsPattern(Top.node.targets[1])
    /\ IsLiteral(Top.node.value)

(* C23: a destructuring assignment raises InvalidExpression when the      *)
(* value is not iterable or its number of items differs from the number   *)
(* of names, at the top level of the pattern and at every nested level;   *)
(* when the shapes match, each name is bound to the value at the same     *)
(* position.                                                               *)
UnpackShapes ==
    Destructured =>
        IF Shaped(Top.node.targets[1], Literal(Top.node.value))
        THEN ctl = RetC(None) /\ Binds(Top.node.targets[1], Literal(Top.node.value))
        ELSE ctl = ExcC(Exc("InvalidExpression"))
NestedArityRefused ==
    /\ Destructured /\ Top.node.targets[1] = ABC
    /\ Shaped(AB, Literal(Top.node.value))
    /\ ~Shaped(ABC, Literal(Top.node.value))
    /\ Elements(Literal(Top.node.value))[2].t = "list"
    /\ ctl = ExcC(Exc("InvalidExpression"))

(* C24: on the base evaluator, an input of the form of an assignment      *)
(* changes neither names nor a container reachable from it: no step of    *)
(* a SimpleEval changes names or the host's dicts, and the node a call    *)
(* hands to the handlers is the value of the statement, never an          *)
(* assignment.                                                             *)
BaseNeverAssigns ==
    [][cls = "SimpleEval" =>
          /\ names' = names /\ items' = items
          /\ ctl'.m = "eval" => ctl'.node.kind \notin {"Assign", "AugAssign"}]_vars
AssignmentFormEvaluated ==
    /\ cls = "SimpleEval" /\ entry = "eval" /\ Done
    /\ ran = <<IntV(2)>> /\ ctl = RetC(IntV(2))
    /\ items = HostDicts /\ names = HostNames

(* m[mark(1)] += mark(5), the same as a plain assignment, and x += mark(2). *)
AugItem   == AugAssign(M(CallMark(1)), "Add", CallMark(5))
PlainItem == Assign(<<M(CallMark(1))>>, BinOp(M(CallMark(1)), "Add", CallMark(5)))
AugName   == AugAssign(Name("x"), "Add", CallMark(2))
Under(node) == Len(stack) > 1 /\ stack[Len(stack) - 1].k \in {"Assign", "AugAssign"}
               /\ stack[Len(stack) - 1].node = node

(* C25: target OP= value leaves the resolver as target = target OP value  *)
(* does: the value is evaluated once, the target once as an rvalue and    *)
(* once as an lvalue, so that a sub-expression of a subscript target      *)
(* that has a side effect runs exactly twice.                             *)
AugAssignAsPlain ==
    [][/\ (/\ stack # <<>> /\ Top.k = "_assign_subscript" /\ ctl.m = "ret"
           /\ Top.pc = "value" /\ (Under(AugItem) \/ Under(PlainItem)))
          => /\ ran = <<IntV(1), IntV(1), IntV(5)>>
             /\ items' = [items EXCEPT !["m"][IntV(1)] = IntV(items["m"][IntV(1)].n + 5)]
       /\ (stack # <<>> /\ Top.k = "_assign_name" /\ ctl.m = "ret" /\ Under(AugName))
          => /\ ran = <<IntV(2)>>
             /\ names' = [names EXCEPT !["x"] = IntV(names["x"].n + 2)]
       /\ (Ended("AugAssign") /\ Top.node \in {AugItem, AugName} /\ ctl.m = "ret")
          => ran \in {<<IntV(1), IntV(1), IntV(5)>>, <<IntV(2)>>}]_vars
AugItemDone ==
    /\ Ended("AugAssign") /\ Top.node = AugItem /\ ctl = RetC(None)
    /\ ran = <<IntV(1), IntV(1), IntV(5)>>
    /\ items["m"][IntV(1)] = IntV(15)

(* C26: in a = b = v the right-hand side is evaluated exactly once,       *)
(* whatever the number of targets, and every target is bound, from left   *)
(* to right, to that one value: when a = b = mark(1) has ended, mark was  *)
(* called once.                                                            *)
ValueOncePerStatement ==
    (/\ Ended("Assign") /\ ctl.m = "ret" /\ Top.ti = Len(Top.node.targets)
     /\ Top.node.targets = <<Name("a"), Name("b")>> /\ Top.node.value = CallMark(1))
    => /\ ran = <<IntV(1)>>
       /\ names["a"] = IntV(1) /\ names["b"] = IntV(1)

(* C27: a destructuring assignment that raises InvalidExpression leaves   *)
(* names as it was: no name of the pattern is bound when a nested         *)
(* sub-pattern fails.  Stated for the first call on an instance, whose    *)
(* names are those the host passed.                                        *)
FailedUnpackBindsNothing ==
    (/\ Destructured /\ calls = 1 /\ entry = "eval"
     /\ ctl = ExcC(Exc("InvalidExpression")))
    => names = HostNames

(* C28: the result of an f-string is never longer than MAX_STRING_LENGTH: *)
(* IterableTooLong is raised as soon as the accumulated length of the     *)
(* parts would exceed it, also when every part is within it.              *)
JoinedLength ==
    [][(stack # <<>> /\ Top.k = "JoinedStr" /\ ctl.m = "ret" /\ ctl'.m = "ret"
        /\ stack' = Pop(stack))
       => Len(ctl'.val.s) <= MAX_STRING_LENGTH]_vars

(* C29: constructing an evaluator of any variant changes no table it did  *)
(* not create: the default tables of the module are as they were, and a   *)
(* function table the caller passed has the same entries after the        *)
(* construction.                                                           *)
ConstructionKeepsTables ==
    given.functions.passed => caller_functions = given.functions.v

=============================================================================
